---- MODULE Spec2Model ----
(***************************************************************************)
(* The DHCP IPAM daemon of the cni-plugins repository: the lease registry  *)
(* guarded by the daemon mutex, the Allocate and Release RPC handlers, the *)
(* lease file written by PersistActiveLeases and read by LoadSavedLeases,  *)
(* and the startup reconciliation of newDHCP and runDaemon.                *)
(***************************************************************************)
EXTENDS Integers, Sequences, FiniteSets, TLC

(***************************************************************************)
(* Bounds of the model.                                                    *)
(***************************************************************************)
\* RPC calls the daemon receives in one run
MaxCalls == 2
\* DHCPLease objects created in one run
MaxLeases == 3
\* leases the previous run of the daemon held when it wrote the lease file
MaxRecs == 2
\* bytes of the longest container id generateClientID is called with
MaxContainerLen == 256
\* entries of the largest option dictionary a packet is assembled from
MaxOptions == 3

(***************************************************************************)
(* Strings are sequences of bytes, as in Go.                               *)
(***************************************************************************)
Slash == <<47>>
\* container ids the runtime passes in CmdArgs.ContainerID
ContainerA == <<97>>
ContainerB == <<98>>
\* a container id that is not valid UTF-8 (a lone lead byte of a 2-byte rune)
ContainerX == <<195>>
NetName == <<110>>
IfName == <<101>>
NetnsA == <<47, 97>>
NetnsB == <<47, 98>>
NetnsX == <<47, 120>>
PodNamespace == <<107>>
PodA == <<112, 97>>
PodX == <<112, 120>>
EmptyString == <<>>
\* two acknowledgement packets, as bytes
AckA == <<5, 10>>
AckB == <<5, 20, 30, 40>>

(***************************************************************************)
(* encoding/json as PersistActiveLeases and LoadSavedLeases use it.        *)
(***************************************************************************)
RuneError == 65533
Base64Pad == 64

IsCont(b) == b >= 128 /\ b <= 191

\* utf8.DecodeRuneInString on the front of s: <<rune, size>>
DecodeRune(s) ==
  LET n == Len(s)
      b0 == s[1]
      invalid == <<RuneError, 1>>
  IN  IF b0 < 128 THEN <<b0, 1>>
      ELSE IF b0 >= 194 /\ b0 <= 223
      THEN IF n >= 2 /\ IsCont(s[2])
           THEN <<(b0 - 192) * 64 + (s[2] - 128), 2>>
           ELSE invalid
      ELSE IF b0 >= 224 /\ b0 <= 239
      THEN IF /\ n >= 3
              /\ IsCont(s[2])
              /\ IsCont(s[3])
              /\ (b0 = 224 => s[2] >= 160)
              /\ (b0 = 237 => s[2] <= 159)
           THEN <<(b0 - 224) * 4096 + (s[2] - 128) * 64 + (s[3] - 128), 3>>
           ELSE invalid
      ELSE IF b0 >= 240 /\ b0 <= 244
      THEN IF /\ n >= 4
              /\ IsCont(s[2])
              /\ IsCont(s[3])
              /\ IsCont(s[4])
              /\ (b0 = 240 => s[2] >= 144)
              /\ (b0 = 244 => s[2] <= 143)
           THEN <<(b0 - 240) * 262144 + (s[2] - 128) * 4096
                    + (s[3] - 128) * 64 + (s[4] - 128), 4>>
           ELSE invalid
      ELSE invalid

\* utf8.EncodeRune
EncodeRune(r) ==
  IF r < 128 THEN <<r>>
  ELSE IF r < 2048 THEN <<192 + (r \div 64), 128 + (r % 64)>>
  ELSE IF r < 65536
  THEN <<224 + (r \div 4096), 128 + ((r \div 64) % 64), 128 + (r % 64)>>
  ELSE <<240 + (r \div 262144), 128 + ((r \div 4096) % 64),
         128 + ((r \div 64) % 64), 128 + (r % 64)>>

RECURSIVE MarshalString(_)
\* json.Marshal of a Go string: the runes of the JSON string literal; a byte
\* that is not part of a valid UTF-8 sequence is written as the escape of U+FFFD
MarshalString(s) ==
  IF Len(s) = 0 THEN <<>>
  ELSE LET d == DecodeRune(s)
       IN  <<d[1]>> \o MarshalString(SubSeq(s, d[2] + 1, Len(s)))

RECURSIVE UnmarshalString(_)
\* json.Unmarshal of a JSON string literal into a Go string
UnmarshalString(j) ==
  IF Len(j) = 0 THEN <<>>
  ELSE EncodeRune(j[1]) \o UnmarshalString(SubSeq(j, 2, Len(j)))

\* json.Marshal of a []byte (dhcp4.Packet): base64.StdEncoding, as sextets;
\* every three bytes give four sextets, and a last group of one or two
\* bytes is filled up with the padding character
MarshalBytes(b) ==
  LET n == Len(b)
      byte(i) == IF i <= n THEN b[i] ELSE 0
      sextet(k) ==
        LET g == (k - 1) \div 4
            b1 == byte(3 * g + 1)
            b2 == byte(3 * g + 2)
            b3 == byte(3 * g + 3)
        IN  IF (k - 1) % 4 = 0 THEN b1 \div 4
            ELSE IF (k - 1) % 4 = 1 THEN (b1 % 4) * 16 + (b2 \div 16)
            ELSE IF (k - 1) % 4 = 2
            THEN IF 3 * g + 2 > n THEN Base64Pad
                 ELSE (b2 % 16) * 4 + (b3 \div 64)
            ELSE IF 3 * g + 3 > n THEN Base64Pad ELSE b3 % 64
  IN  [k \in 1..(4 * ((n + 2) \div 3)) |-> sextet(k)]

\* json.Unmarshal of a base64 string into a []byte: three bytes for every
\* group of four sextets, up to the first group that is padded
UnmarshalBytes(q) ==
  LET groups == Len(q) \div 4
      padded(g) == q[4 * g + 3] = Base64Pad \/ q[4 * g + 4] = Base64Pad
      whole == IF \E g \in 0..(groups - 1) : padded(g)
               THEN CHOOSE g \in 0..(groups - 1) :
                      padded(g) /\ \A h \in 0..(g - 1) : ~padded(h)
               ELSE groups
      tail == IF whole = groups THEN 0
              ELSE IF q[4 * whole + 3] = Base64Pad THEN 1
              ELSE 2
      byte(i) ==
        LET g == (i - 1) \div 3
        IN  IF (i - 1) % 3 = 0 THEN q[4 * g + 1] * 4 + (q[4 * g + 2] \div 16)
            ELSE IF (i - 1) % 3 = 1
            THEN (q[4 * g + 2] % 16) * 16 + (q[4 * g + 3] \div 4)
            ELSE (q[4 * g + 3] % 4) * 64 + q[4 * g + 4]
  IN  [i \in 1..(3 * whole + tail) |-> byte(i)]

\* a time.Time: the wall-clock instant and the monotonic reading that
\* time.Now() attaches (0 when the value carries none)
Time(w, m) == [wall |-> w, mono |-> m]

\* Time.MarshalJSON: RFC 3339 text of the wall-clock instant only
MarshalTime(t) == t.wall

\* Time.UnmarshalJSON: the parsed instant, without a monotonic reading
UnmarshalTime(j) == Time(j, 0)

(***************************************************************************)
(* Leases.  The DHCPLease type, AcquireLease, StartMaintaining and Stop    *)
(* are defined in the lease file of the dhcp plugin; the daemon and the    *)
(* persistence code use them through the fields and calls modelled here.   *)
(***************************************************************************)
ClientIDMax == 254

\* a generateClientID that returns the whole string
generateClientIDUncut(containerID, netName, ifName) ==
  containerID \o Slash \o netName \o Slash \o ifName

\* generateClientID
generateClientID(containerID, netName, ifName) ==
  LET clientID == containerID \o Slash \o netName \o Slash \o ifName
  IN  IF Len(clientID) > ClientIDMax
      THEN SubSeq(clientID, 1, ClientIDMax)
      ELSE clientID

\* a netlink.Link: its name and the lookup that produced the handle
Link(name, by) == [name |-> name, by |-> by]

\* the DHCPLease that AcquireLease returns once the lease is bound: the
\* maintainer is running, the timers follow the acknowledgement
AcquireLease(clientID, netns, ifName, podNs, podName, ack) ==
  [clientID      |-> clientID,
   ack           |-> ack,
   link          |-> Link(ifName, "acquire"),
   renewalTime   |-> Time(ack[2], 1),
   rebindingTime |-> Time(ack[2] + 5, 1),
   expireTime    |-> Time(ack[2] + 10, 1),
   k8sNamespace  |-> podNs,
   k8sPodName    |-> podName,
   netNs         |-> netns,
   running       |-> TRUE,
   stopped       |-> FALSE,
   origin        |-> "acquired"]

\* DHCPLease.StartMaintaining: the maintainer of a reloaded lease starts
StartMaintaining(l) == [l EXCEPT !.running = TRUE]

\* a Stop whose second call undoes the first
StopTwiceRestarts(l) ==
  [l EXCEPT !.running = l.stopped, !.stopped = ~l.stopped]

\* DHCPLease.Stop: the maintainer ends; a second call changes nothing
Stop(l) == [l EXCEPT !.running = FALSE, !.stopped = TRUE]

(***************************************************************************)
(* persist.go                                                              *)
(***************************************************************************)
\* the PersistedLeased value PersistActiveLeases builds from a lease
PersistedLeased(v) ==
  [ClientID      |-> v.clientID,
   Ack           |-> v.ack,
   LinkName      |-> v.link.name,
   RenewalTime   |-> v.renewalTime,
   RebindingTime |-> v.rebindingTime,
   ExpireTime    |-> v.expireTime,
   K8sNamespace  |-> v.k8sNamespace,
   K8sPodName    |-> v.k8sPodName,
   NetNs         |-> v.netNs]

\* json.Marshal of one PersistedLeased
MarshalLease(p) ==
  [ClientID      |-> MarshalString(p.ClientID),
   Ack           |-> MarshalBytes(p.Ack),
   LinkName      |-> MarshalString(p.LinkName),
   RenewalTime   |-> MarshalTime(p.RenewalTime),
   RebindingTime |-> MarshalTime(p.RebindingTime),
   ExpireTime    |-> MarshalTime(p.ExpireTime),
   K8sNamespace  |-> MarshalString(p.K8sNamespace),
   K8sPodName    |-> MarshalString(p.K8sPodName),
   NetNs         |-> MarshalString(p.NetNs)]

\* json.Unmarshal of one element of the file into a PersistedLeased
UnmarshalLease(j) ==
  [ClientID      |-> UnmarshalString(j.ClientID),
   Ack           |-> UnmarshalBytes(j.Ack),
   LinkName      |-> UnmarshalString(j.LinkName),
   RenewalTime   |-> UnmarshalTime(j.RenewalTime),
   RebindingTime |-> UnmarshalTime(j.RebindingTime),
   ExpireTime    |-> UnmarshalTime(j.ExpireTime),
   K8sNamespace  |-> UnmarshalString(j.K8sNamespace),
   K8sPodName    |-> UnmarshalString(j.K8sPodName),
   NetNs         |-> UnmarshalString(j.NetNs)]

\* PersistActiveLeases, lines 79-96: the elements of the JSON array built
\* from the registry reg over the lease objects hp.  The array is in the
\* order of a range over a Go map, which is arbitrary: the file is kept as
\* the set of its elements and its reader meets them in any order.
LeasesToSave(reg, hp) ==
  {MarshalLease(PersistedLeased(hp[reg[c]])) : c \in DOMAIN reg}

\* the lease file
FileMissing == [st |-> "missing", recs |-> {}]
\* a file that is not a complete JSON document (empty, cut short, overlaid)
FileCorrupt == [st |-> "corrupt", recs |-> {}]
FileOf(recs) == [st |-> "ok", recs |-> recs]

\* what ioutil.WriteFile can do: fail to open, truncate and then fail to
\* write, or write everything
WriteOutcomes == {"openfail", "writefail", "written"}

\* the file after ioutil.WriteFile of the JSON array snap over the file f
WriteFile(f, snap, outcome) ==
  IF outcome = "openfail" THEN f
  ELSE IF outcome = "writefail" THEN FileCorrupt
  ELSE FileOf(snap)

\* the orders in which the elements of the set S can be met
Orders(S) ==
  {o \in [1..Cardinality(S) -> S] : \A i, j \in DOMAIN o : i # j => o[i] # o[j]}

\* the PersistedLeased values json.Unmarshal yields for the file, met in the
\* order o; a syntax error leaves the slice nil and the error is not looked
\* at (line 35)
ParsedRecords(f, o) ==
  IF f.st = "ok" THEN [i \in DOMAIN o |-> UnmarshalLease(o[i])]
  ELSE <<>>

\* a load that takes the expiry of the record for the renewal time and the
\* renewal time for the expiry
ReloadedLeaseSwapsTimers(lease) ==
  [clientID      |-> lease.ClientID,
   ack           |-> lease.Ack,
   link          |-> Link(lease.LinkName, "load"),
   renewalTime   |-> lease.ExpireTime,
   rebindingTime |-> lease.RebindingTime,
   expireTime    |-> lease.RenewalTime,
   k8sNamespace  |-> lease.K8sNamespace,
   k8sPodName    |-> lease.K8sPodName,
   netNs         |-> lease.NetNs,
   running       |-> FALSE,
   stopped       |-> FALSE,
   origin        |-> "loaded"]

\* the DHCPLease LoadSavedLeases builds from a record, lines 40-60
ReloadedLease(lease) ==
  [clientID      |-> lease.ClientID,
   ack           |-> lease.Ack,
   link          |-> Link(lease.LinkName, "load"),
   renewalTime   |-> lease.RenewalTime,
   rebindingTime |-> lease.RebindingTime,
   expireTime    |-> lease.ExpireTime,
   k8sNamespace  |-> lease.K8sNamespace,
   k8sPodName    |-> lease.K8sPodName,
   netNs         |-> lease.NetNs,
   running       |-> FALSE,
   stopped       |-> FALSE,
   origin        |-> "loaded"]

\* outcomes of ns.WithNetNSPath with the link lookup, lines 54-63: the link
\* is found, the path does not exist (NSPathNotExistErr), any other error
NetnsStates == {"ok", "gone", "nolink"}

RECURSIVE LoadLoop(_, _, _, _)
\* the loop of LoadSavedLeases, lines 39-73, from record i on, with the
\* leases reloaded so far; ns gives the state of every namespace path
LoadLoop(recs, ns, i, reloaded) ==
  IF i > Len(recs) THEN [leases |-> reloaded, err |-> "none"]
  ELSE LET st == ns[recs[i].NetNs]
       IN  IF st = "gone" THEN LoadLoop(recs, ns, i + 1, reloaded)
           ELSE IF st = "nolink" THEN [leases |-> <<>>, err |-> "link"]
           ELSE LoadLoop(recs, ns, i + 1,
                         Append(reloaded, ReloadedLease(recs[i])))

\* LoadSavedLeases: the leases and the error it returns for the file f whose
\* elements come in the order o
LoadSavedLeases(f, o, ns) ==
  IF f.st = "missing" THEN [leases |-> <<>>, err |-> "read"]
  ELSE LoadLoop(ParsedRecords(f, o), ns, 1, <<>>)

(***************************************************************************)
(* The daemon.                                                             *)
(***************************************************************************)
VARIABLES
  daemon,    \* where runDaemon is: "setup", "load", "reconcile", "mark",
             \* "serving", "aborted" (it returned an error), "crashed"
  abortErr,  \* the error runDaemon returned
  file,      \* the lease file at savedLeaseLocation
  boot,      \* the startup, until the daemon serves:
             \*   prev    the leases of the registry the file was written from
             \*   fileSt  state of the file when LoadSavedLeases read it
             \*   read    the records parsed from the file, in reading order
             \*   netns   state of every namespace path at the load
             \*   loaded  the leases LoadSavedLeases returned to newDHCP
             \*   loadErr the error LoadSavedLeases returned
             \*   idx     position of the loop of newDHCP in loaded
             \*   recon   what the loop of newDHCP did with each lease
             \*   wrote   outcome of the write at the end of newDHCP
  heap,      \* the DHCPLease objects, by address
  leases,    \* DHCP.leases: clientID -> address of a DHCPLease
  mux,       \* DHCP.mux: 0 when free, else the call that holds it
  calls,     \* the RPC calls: [op, conf, clientID, pc, l, snap, after, io,
             \* ret]; conf is the request as the handler received it
  lastLock,  \* per clientID, the operation that last acquired DHCP.mux
  frame      \* the arguments, locals and results of a function of the
             \* plugin that runs outside the daemon's handlers

vars ==
  <<daemon, abortErr, file, boot, heap, leases, mux, calls, lastLock, frame>>

Containers == {ContainerA, ContainerB}

\* the acknowledgement the DHCP server has for a container
AckOf(container) == IF container = ContainerB THEN AckB ELSE AckA
\* the namespace path and the pod of a container, as CmdArgs carries them
NetnsOf(container) ==
  IF container = ContainerA THEN NetnsA
  ELSE IF container = ContainerB THEN NetnsB
  ELSE NetnsX
PodOf(container) ==
  IF container = ContainerA THEN PodA
  ELSE IF container = ContainerB THEN EmptyString
  ELSE PodX
PodNamespaceOf(container) ==
  IF container = ContainerB THEN EmptyString ELSE PodNamespace

\* the lease a run of the daemon acquires for a container
LeaseFor(container) ==
  AcquireLease(generateClientID(container, NetName, IfName),
               NetnsOf(container), IfName, PodNamespaceOf(container),
               PodOf(container), AckOf(container))

\* the registries the previous run can have held when it wrote the file
PrevRegistries ==
  {{LeaseFor(c) : c \in S} :
     S \in {T \in SUBSET {ContainerA, ContainerB, ContainerX} :
              Cardinality(T) <= MaxRecs}}

NoCall ==
  [op |-> "none", conf |-> "ok", clientID |-> EmptyString, pc |-> "idle",
   l |-> 0, snap |-> {}, after |-> FALSE, io |-> "none", ret |-> "none"]

NoFrame == [fn |-> "none"]

EmptyRegistry == [c \in {} |-> 0]

NoBoot ==
  [prev |-> {}, fileSt |-> "none", read |-> <<>>, netns |-> EmptyRegistry, loaded |-> <<>>,
   loadErr |-> "none", idx |-> 0, recon |-> <<>>, wrote |-> "none"]

Init ==
  /\ daemon = "setup"
  /\ abortErr = "none"
  /\ \E p \in PrevRegistries :
       /\ boot = [NoBoot EXCEPT !.prev = p]
       /\ file \in {FileOf({MarshalLease(PersistedLeased(v)) : v \in p})}
                   \cup (IF p = {} THEN {FileMissing, FileCorrupt} ELSE {})
  /\ heap = <<>>
  /\ leases = EmptyRegistry
  /\ mux = 0
  /\ calls = [h \in 1..MaxCalls |-> NoCall]
  /\ lastLock = EmptyRegistry
  /\ frame = NoFrame

\* a store that keeps the entry a client id already has and puts the new
\* lease beside it
MapSetKeepsOld(reg, clientID, l) ==
  LET k == IF clientID \in DOMAIN reg THEN clientID \o Slash ELSE clientID
  IN  [c \in DOMAIN reg \cup {k} |-> IF c = k THEN l ELSE reg[c]]

\* the map d.leases after d.leases[clientID] = l, line 198
MapSet(reg, clientID, l) ==
  [c \in DOMAIN reg \cup {clientID} |-> IF c = clientID THEN l ELSE reg[c]]

\* a delete that leaves the map as it is
MapDeleteKeeps(reg, clientID) == reg

\* the map d.leases after delete(d.leases, clientID), line 207
MapDelete(reg, clientID) ==
  [c \in DOMAIN reg \ {clientID} |-> reg[c]]

\* runDaemon, lines 245-271: pidfile, cluster config, clientset, listener
Setup ==
  /\ daemon = "setup"
  /\ \E ok \in BOOLEAN :
       IF ok
       THEN daemon' = "load" /\ abortErr' = abortErr
       ELSE daemon' = "aborted" /\ abortErr' = "setup"
  /\ UNCHANGED <<frame, file, boot, heap, leases, mux, calls, lastLock>>

\* a newDHCP that returns the error of LoadSavedLeases
LoadFatalOnError(err) == err # "none"

\* newDHCP, lines 73-75: whether newDHCP gives up on an error of
\* LoadSavedLeases; it prints the error and goes on
LoadFatal(err) == FALSE

\* newDHCP, lines 66-75: load the file
NewDHCPLoad ==
  /\ daemon = "load"
  /\ \E o \in Orders(file.recs) :
       \E ns \in [{UnmarshalLease(j).NetNs : j \in file.recs}
                    -> NetnsStates] :
         LET r == LoadSavedLeases(file, o, ns)
         IN  /\ boot' = [boot EXCEPT !.fileSt = file.st,
                                     !.read = ParsedRecords(file, o),
                                     !.netns = ns,
                                     !.loaded = r.leases,
                                     !.loadErr = r.err,
                                     !.idx = 1]
             /\ IF LoadFatal(r.err)
                THEN daemon' = "aborted" /\ abortErr' = "load"
                ELSE daemon' = "reconcile" /\ abortErr' = abortErr
  /\ UNCHANGED <<frame, file, heap, leases, mux, calls, lastLock>>

\* what k8s.Pods(ns).Get can answer for a lease with a pod name
PodAnswers == {"found", "notfound", "apierr"}

\* a loop that takes every error of the query for not-found
PodDecisionDropsOnError(answer) ==
  IF answer \in {"notfound", "apierr"} THEN "drop" ELSE "keep"

\* a loop that goes on to setLease when the pod is not found
PodDecisionKeepsNotFound(answer) ==
  IF answer = "apierr" THEN "abort" ELSE "keep"

\* newDHCP, lines 78-87: what the loop does with a lease given the answer
PodDecision(answer) ==
  IF answer = "notfound" THEN "drop"
  ELSE IF answer = "apierr" THEN "abort"
  ELSE "keep"

\* a loop that asks the cluster about every lease
QueriesPodAlways(val) == TRUE

\* newDHCP, line 78: the loop asks the cluster for the pod of a lease only
\* when the lease has a pod name
QueriesPod(val) == val.k8sPodName # EmptyString

\* newDHCP, lines 77-93: one pass of the loop over the reloaded leases
NewDHCPReconcile ==
  /\ daemon = "reconcile"
  /\ boot.idx <= Len(boot.loaded)
  /\ mux = 0
  /\ LET val == boot.loaded[boot.idx]
         done(answer, l, start) ==
           [boot EXCEPT !.recon = Append(@, [pod |-> answer, l |-> l,
                                             start |-> start]),
                        !.idx = IF start = "err" \/ PodDecision(answer) = "abort"
                                THEN @ ELSE @ + 1]
     IN  \E answer \in (IF QueriesPod(val)
                        THEN PodAnswers ELSE {"noquery"}) :
           \/ /\ PodDecision(answer) = "drop"
              /\ boot' = done(answer, 0, "none")
              /\ UNCHANGED <<daemon, abortErr, heap, leases, lastLock>>
           \/ /\ PodDecision(answer) = "abort"
              /\ boot' = done(answer, 0, "none")
              /\ daemon' = "aborted"
              /\ abortErr' = "k8s"
              /\ UNCHANGED <<heap, leases, lastLock>>
           \/ /\ PodDecision(answer) = "keep"
              /\ Len(heap) < MaxLeases
              /\ \E start \in {"ok", "err"} :
                   /\ boot' = done(answer, Len(heap) + 1, start)
                   /\ leases' = MapSet(leases, val.clientID, Len(heap) + 1)
                   /\ lastLock' = MapSet(lastLock, val.clientID, "newDHCP")
                   /\ IF start = "ok"
                      THEN /\ heap' = Append(heap, StartMaintaining(val))
                           /\ UNCHANGED <<daemon, abortErr>>
                      ELSE /\ heap' = Append(heap, val)
                           /\ daemon' = "aborted"
                           /\ abortErr' = "maintain"
  /\ UNCHANGED <<frame, file, mux, calls>>

\* newDHCP, lines 95-100: persist the reconciled registry and return
NewDHCPPersist ==
  /\ daemon = "reconcile"
  /\ boot.idx > Len(boot.loaded)
  /\ \E outcome \in WriteOutcomes :
       /\ file' = WriteFile(file, LeasesToSave(leases, heap), outcome)
       /\ boot' = [boot EXCEPT !.wrote = outcome]
  /\ daemon' = "mark"
  /\ UNCHANGED <<frame, abortErr, heap, leases, mux, calls, lastLock>>

\* a runDaemon that serves although the node could not be marked
MarkNodeServesOnError ==
  /\ daemon = "mark"
  /\ \E ok \in BOOLEAN :
       /\ daemon' = "serving"
       /\ abortErr' = IF ok THEN abortErr ELSE "node"
       /\ boot' = [NoBoot EXCEPT !.wrote = boot.wrote]
  /\ UNCHANGED <<frame, file, heap, leases, mux, calls, lastLock>>

\* runDaemon, lines 277-287: mark the node available, then serve; what
\* newDHCP worked on is gone once the daemon serves
MarkNode ==
  /\ daemon = "mark"
  /\ \E ok \in BOOLEAN :
       IF ok
       THEN /\ daemon' = "serving"
            /\ abortErr' = abortErr
            /\ boot' = [NoBoot EXCEPT !.wrote = boot.wrote]
       ELSE daemon' = "aborted" /\ abortErr' = "node" /\ boot' = boot
  /\ UNCHANGED <<frame, file, heap, leases, mux, calls, lastLock>>

(***************************************************************************)
(* The RPC handlers.  Each call runs on its own goroutine; a step is one   *)
(* stretch of a handler between two points where another may interleave.   *)
(***************************************************************************)
\* the requests a handler can be sent: the netconf does not parse ("badconf"),
\* the CNI args do not load ("badargs"), the options of the netconf are not
\* valid ("badopts")
ConfStates(op) == {"ok", "badconf", "badargs", "badopts"}

\* handlers that look at the netconf alone
RejectsNetconfOnly(op, conf) == conf = "badconf"

\* whether the handler returns an error for the request: Allocate parses the
\* netconf (line 118), loads the args (line 123) and prepares the options
\* (line 127); Release parses the netconf (line 168) and reads neither the
\* args nor the options
Rejects(op, conf) ==
  IF op = "Allocate" THEN conf # "ok" ELSE conf = "badconf"

\* the call has put its lease into the registry
Inserted(c) ==
  /\ c.op = "Allocate"
  /\ c.pc \in {"persist", "write"} \/ (c.pc = "done" /\ c.ret = "ok")

\* an Allocate that locks the mutex before it acquires the lease
AllocateEntryLocks(h, m) == h

\* the mutex m as Allocate h leaves it on its way to AcquireLease, lines
\* 116-136: it does not lock
AllocateEntry(h, m) == m

\* Allocate lines 117-132 and Release lines 167-172: parse the request and
\* compute the client id
Receive(h) ==
  /\ daemon = "serving"
  /\ calls[h].pc = "idle"
  /\ h > 1 => calls[h - 1].pc # "idle"
  /\ \E op \in {"Allocate", "Release"}, container \in Containers :
       \E conf \in ConfStates(op) :
         /\ mux' = IF op = "Allocate" /\ ~Rejects(op, conf)
                   THEN AllocateEntry(h, mux) ELSE mux
         /\ calls' = [calls EXCEPT ![h] =
             IF Rejects(op, conf)
             THEN [@ EXCEPT !.op = op, !.conf = conf, !.pc = "done",
                            !.ret = "config"]
             ELSE [@ EXCEPT !.op = op,
                            !.conf = conf,
                            !.clientID =
                               generateClientID(container, NetName, IfName),
                            !.pc = IF op = "Allocate" THEN "acquire"
                                   ELSE "get"]]
  /\ UNCHANGED <<frame, daemon, abortErr, file, boot, heap, leases, lastLock>>

\* the container a client id was computed from
ContainerOf(clientID) ==
  CHOOSE container \in Containers :
    generateClientID(container, NetName, IfName) = clientID

\* an Allocate that returns the error of IPNet and leaves the lease as it is
IPNetFailedKeepsLease(l) == l

\* Allocate, lines 140-143: the acquired lease when l.IPNet() returned an
\* error: Allocate stops it before it returns the error
IPNetFailed(l) == Stop(l)

\* Allocate, lines 133-145: AcquireLease without the mutex, then IPNet; a
\* lease whose IPNet fails is stopped
AllocateAcquire(h) ==
  /\ daemon = "serving"
  /\ calls[h].pc = "acquire"
  /\ \/ /\ calls' = [calls EXCEPT ![h].pc = "done", ![h].ret = "acquire"]
        /\ heap' = heap
     \/ /\ Len(heap) < MaxLeases
        /\ \E ipnet \in BOOLEAN :
             LET l == LeaseFor(ContainerOf(calls[h].clientID))
             IN  IF ipnet
                 THEN /\ heap' = Append(heap, l)
                      /\ calls' = [calls EXCEPT ![h].pc = "set",
                                                ![h].l = Len(heap) + 1]
                 ELSE /\ heap' = Append(heap, IPNetFailed(l))
                      /\ calls' = [calls EXCEPT ![h].pc = "done",
                                                ![h].l = Len(heap) + 1,
                                                ![h].ret = "ipnet"]
  /\ UNCHANGED <<frame, daemon, abortErr, file, boot, leases, mux, lastLock>>

\* Allocate, line 147: setLease locks, stores and unlocks
AllocateSetLease(h) ==
  /\ daemon = "serving"
  /\ calls[h].pc = "set"
  /\ mux = 0
  /\ leases' = MapSet(leases, calls[h].clientID, calls[h].l)
  /\ lastLock' = MapSet(lastLock, calls[h].clientID, "Allocate")
  /\ calls' = [calls EXCEPT ![h].pc = "persist"]
  /\ UNCHANGED <<frame, daemon, abortErr, file, boot, heap, mux>>

\* Allocate, line 149, PersistActiveLeases lines 79-96: the range over
\* d.leases and the Marshal, with the mutex not held
AllocatePersist(h) ==
  /\ daemon = "serving"
  /\ calls[h].pc = "persist"
  /\ calls' = [calls EXCEPT ![h].pc = "write",
                            ![h].snap = LeasesToSave(leases, heap)]
  /\ UNCHANGED <<frame, daemon, abortErr, file, boot, heap, leases, mux, lastLock>>

\* the Go runtime ends the process when a range over a map (line 81, by an
\* Allocate that holds no lock) runs while another goroutine writes the map
MapRaceFatal ==
  /\ daemon = "serving"
  /\ mux = 0
  /\ \E h1, h2 \in 1..MaxCalls :
       /\ h1 # h2
       /\ calls[h1].pc = "persist"
       /\ calls[h2].pc \in {"set", "clear"}
  /\ daemon' = "crashed"
  /\ UNCHANGED <<frame, abortErr, file, boot, heap, leases, mux, calls, lastLock>>

\* a getLease that returns with the mutex locked
GetLeaseKeepsLock(h) == h

\* the mutex when getLease returns to call h: the deferred Unlock of line
\* 183 has run
GetLeaseUnlock(h) == 0

\* Release, line 173: getLease locks, looks up and unlocks; what the request
\* held besides the netconf is of no use from here on and is forgotten
ReleaseGetLease(h) ==
  /\ daemon = "serving"
  /\ calls[h].pc = "get"
  /\ mux = 0
  /\ LET l == IF calls[h].clientID \in DOMAIN leases
              THEN leases[calls[h].clientID] ELSE 0
         after == \E g \in 1..MaxCalls :
                    /\ calls[g].clientID = calls[h].clientID
                    /\ Inserted(calls[g])
     IN  calls' = [calls EXCEPT
                     ![h].conf = "ok",
                     ![h].l = l,
                     ![h].after = after,
                     ![h].pc = IF l = 0 THEN "done" ELSE "stop",
                     ![h].ret = IF l = 0 THEN "ok" ELSE "none"]
  /\ lastLock' = MapSet(lastLock, calls[h].clientID, "Release")
  /\ mux' = GetLeaseUnlock(h)
  /\ UNCHANGED <<frame, daemon, abortErr, file, boot, heap, leases>>

\* Release, line 174: l.Stop() with the mutex not held
ReleaseStop(h) ==
  /\ daemon = "serving"
  /\ calls[h].pc = "stop"
  /\ heap' = [heap EXCEPT ![calls[h].l] = Stop(@)]
  /\ calls' = [calls EXCEPT ![h].pc = "clear"]
  /\ UNCHANGED <<frame, daemon, abortErr, file, boot, leases, mux, lastLock>>

\* Release, line 175: clearLease lines 203-209 and PersistActiveLeases lines
\* 79-96: lock, delete, range over the map and Marshal; the mutex stays held
ReleaseClearLease(h) ==
  /\ daemon = "serving"
  /\ calls[h].pc = "clear"
  /\ mux = 0
  /\ mux' = h
  /\ leases' = MapDelete(leases, calls[h].clientID)
  /\ lastLock' = MapSet(lastLock, calls[h].clientID, "Release")
  /\ calls' = [calls EXCEPT ![h].pc = "write",
                            ![h].snap = LeasesToSave(leases', heap)]
  /\ UNCHANGED <<frame, daemon, abortErr, file, boot, heap>>

\* the mutex after PersistActiveLeases returned to call h: clearLease holds
\* it until then (line 204), Allocate never held it
Unlock(h, m) == IF calls[h].op = "Release" THEN 0 ELSE m

\* PersistActiveLeases, lines 101-105: ioutil.WriteFile; a failure is logged
\* and the caller gets nil, and so does the client (Allocate line 161,
\* Release line 178)
PersistWrite(h) ==
  /\ daemon = "serving"
  /\ calls[h].pc = "write"
  /\ \E outcome \in WriteOutcomes :
       /\ file' = WriteFile(file, calls[h].snap, outcome)
       /\ calls' = [calls EXCEPT
                      ![h].pc = "done",
                      ![h].io = IF outcome = "written" THEN "written"
                                ELSE "failed",
                      ![h].ret = "ok"]
  /\ mux' = Unlock(h, mux)
  /\ UNCHANGED <<frame, daemon, abortErr, boot, heap, leases, lastLock>>

\* length of the JSON text of a set of records, up to what is the same for
\* every record
TextLen(recs) ==
  LET len(j) == 1 + Len(j.ClientID) + Len(j.Ack) + Len(j.LinkName)
                  + Len(j.K8sNamespace) + Len(j.K8sPodName) + Len(j.NetNs)
      RECURSIVE sum(_)
      sum(S) == IF S = {} THEN 0
                ELSE LET j == CHOOSE x \in S : TRUE
                     IN  len(j) + sum(S \ {j})
  IN  sum(recs)

\* PersistActiveLeases, line 101, in two calls at once: each ioutil.WriteFile
\* truncates the file and writes from offset 0, so when both have truncated
\* before either writes, the end of the longer text stays behind the shorter
WriteRace(h, g) ==
  /\ daemon = "serving"
  /\ h # g
  /\ calls[h].pc = "write"
  /\ calls[g].pc = "write"
  /\ TextLen(calls[h].snap) > TextLen(calls[g].snap)
  /\ file' = FileCorrupt
  /\ calls' = [calls EXCEPT ![h].pc = "done", ![h].io = "overlaid",
                            ![h].ret = "ok",
                            ![g].pc = "done", ![g].io = "overlaid",
                            ![g].ret = "ok"]
  /\ mux' = Unlock(h, Unlock(g, mux))
  /\ UNCHANGED <<frame, daemon, abortErr, boot, heap, leases, lastLock>>

Next ==
  \/ Setup
  \/ NewDHCPLoad
  \/ NewDHCPReconcile
  \/ NewDHCPPersist
  \/ MarkNode
  \/ MapRaceFatal
  \/ \E h \in 1..MaxCalls : Receive(h)
  \/ \E h \in 1..MaxCalls : AllocateAcquire(h)
  \/ \E h \in 1..MaxCalls : AllocateSetLease(h)
  \/ \E h \in 1..MaxCalls : AllocatePersist(h)
  \/ \E h \in 1..MaxCalls : ReleaseGetLease(h)
  \/ \E h \in 1..MaxCalls : ReleaseStop(h)
  \/ \E h \in 1..MaxCalls : ReleaseClearLease(h)
  \/ \E h \in 1..MaxCalls : PersistWrite(h)
  \/ \E h, g \in 1..MaxCalls : WriteRace(h, g)

Spec == Init /\ [][Next]_vars

(***************************************************************************)
(* Properties.                                                             *)
(***************************************************************************)
ClientIDs == {generateClientID(c, NetName, IfName) : c \in Containers}

CallsOf(op, clientID) ==
  {h \in 1..MaxCalls : calls[h].op = op /\ calls[h].clientID = clientID}

\* every call received so far has returned
AllReturned == \A h \in 1..MaxCalls : calls[h].pc \in {"idle", "done"}

\* the file holds what a persist of the registry as it is now writes
FileReflectsRegistry == file = FileOf(LeasesToSave(leases, heap))

\* C1: once every Allocate and Release received has returned successfully
\* (and, here, no write of the file has failed or been overlaid), the
\* records of the file are those of the leases of the registry
C1_FileEqualsRegistry ==
  ( /\ daemon = "serving"
    /\ boot.wrote = "written"
    /\ AllReturned
    /\ \E h \in 1..MaxCalls : calls[h].pc = "done"
    /\ \A h \in 1..MaxCalls :
         calls[h].pc = "done" =>
           calls[h].ret = "ok" /\ calls[h].io \in {"none", "written"} )
  => FileReflectsRegistry

\* C2: a call that has mutated the registry and has not yet finished the
\* persistence attempt that follows the mutation holds the daemon mutex
C2_PersistUnderMutex ==
  \A h \in 1..MaxCalls : calls[h].pc \in {"persist", "write"} => mux = h

\* C3: after one Allocate and one Release of the same client id have both
\* returned successfully, the client id is in the registry exactly when the
\* Allocate was the last of the two to acquire the mutex, and it is absent
\* whenever the Release looked the lease up after the Allocate inserted it
C3_LastLockDecides ==
  \A c \in ClientIDs :
    ( /\ Cardinality(CallsOf("Allocate", c)) = 1
      /\ Cardinality(CallsOf("Release", c)) = 1
      /\ \A h \in CallsOf("Allocate", c) \cup CallsOf("Release", c) :
           calls[h].pc = "done" /\ calls[h].ret = "ok" )
    => /\ c \in DOMAIN leases <=> lastLock[c] = "Allocate"
       /\ \A r \in CallsOf("Release", c) :
            calls[r].after => c \notin DOMAIN leases

\* an Allocate and a Release of one client id ran concurrently, the Release
\* found the lease the Allocate had inserted, and both have returned
C3_Witness ==
  \E c \in ClientIDs, a, r \in 1..MaxCalls :
    /\ a < r
    /\ CallsOf("Allocate", c) = {a}
    /\ CallsOf("Release", c) = {r}
    /\ calls[a].pc = "done" /\ calls[a].ret = "ok"
    /\ calls[r].pc = "done" /\ calls[r].ret = "ok"
    /\ calls[r].after
    /\ calls[r].l = calls[a].l
    /\ lastLock[c] = "Release"
    /\ c \notin DOMAIN leases

\* C4: when the Allocate and Release calls of a client id have all returned
\* and the registry has no entry for it, no lease acquired for it is running
C4_AbsentMeansStopped ==
  \A c \in ClientIDs :
    ( /\ CallsOf("Allocate", c) # {}
      /\ CallsOf("Release", c) # {}
      /\ \A h \in CallsOf("Allocate", c) \cup CallsOf("Release", c) :
           calls[h].pc = "done"
      /\ c \notin DOMAIN leases )
    => \A i \in DOMAIN heap :
         heap[i].clientID = c /\ heap[i].origin = "acquired"
           => ~heap[i].running

\* the record was dropped because its namespace path is gone
NsGone(R) == boot.netns[R.NetNs] = "gone"

\* the record was dropped because the orchestrator did not find its pod
PodGone(R) ==
  \E k \in DOMAIN boot.recon :
    boot.loaded[k].clientID = R.ClientID /\ boot.recon[k].pod = "notfound"

\* the record is in the registry with its timers and its acknowledgement
Reinstated(R) ==
  /\ R.ClientID \in DOMAIN leases
  /\ LET v == heap[leases[R.ClientID]]
     IN  /\ v.renewalTime = R.RenewalTime
         /\ v.rebindingTime = R.RebindingTime
         /\ v.expireTime = R.ExpireTime
         /\ v.ack = R.Ack

\* C5: once newDHCP has returned, every record read from the file either
\* was dropped because its namespace or its workload is gone, or is in the
\* registry with the same timers and acknowledgement, and never both
C5_DroppedOrReinstated ==
  daemon = "mark" =>
    \A i \in DOMAIN boot.read :
      (NsGone(boot.read[i]) \/ PodGone(boot.read[i]))
        <=> ~Reinstated(boot.read[i])

\* C6: when the query for the pod of a persisted lease failed with an error
\* other than not-found, runDaemon has returned that error and no Allocate
\* or Release has been received
C6_ApiErrorAborts ==
  (\E k \in DOMAIN boot.recon : boot.recon[k].pod = "apierr")
  => /\ daemon = "aborted"
     /\ abortErr = "k8s"
     /\ \A h \in 1..MaxCalls : calls[h].pc = "idle"

\* the query failed for the second lease after the first was reinstated
C6_Witness ==
  /\ daemon = "aborted"
  /\ Len(boot.recon) = 2
  /\ boot.recon[1].l # 0
  /\ boot.recon[2].pod = "apierr"

\* the lease of pass k of the loop is not in the registry and no lease of
\* its client id has a maintainer
NotInserted(k) ==
  /\ boot.loaded[k].clientID \notin DOMAIN leases
  /\ \A i \in DOMAIN heap :
       heap[i].clientID = boot.loaded[k].clientID => ~heap[i].running

\* the file was rewritten with the reinstated records and without record k
RewrittenWithout(k) ==
  /\ FileReflectsRegistry
  /\ \A j \in file.recs :
       UnmarshalLease(j).ClientID # boot.loaded[k].clientID

FileUnreadable == boot.fileSt \in {"missing", "corrupt"}

\* C8 as stated: when the file is missing or does not parse, startup does
\* not abort and the registry is empty
C8_BadFileNeverAborts ==
  FileUnreadable => daemon # "aborted" /\ leases = EmptyRegistry

\* C8, amended: when the file is missing or does not parse, newDHCP returns
\* an empty registry, and startup goes on to serve unless marking the node
\* available fails
C8_BadFileAbortsOnlyOnNode ==
  FileUnreadable =>
    /\ boot.loaded = <<>>
    /\ leases = EmptyRegistry
    /\ daemon \in {"reconcile", "mark", "aborted"}
    /\ daemon = "aborted" => abortErr = "node"

\* newDHCP has returned an empty registry for a missing file
C8_Witness ==
  /\ boot.fileSt = "missing"
  /\ boot.loadErr = "read"
  /\ daemon = "mark"
  /\ leases = EmptyRegistry

\* LoadSavedLeases has returned
Loaded == boot.idx >= 1

\* C9: after the load, a record whose namespace path is gone is not among
\* the reloaded leases, and every record whose namespace and link exist is
C9_SkipsOnlyGoneNamespaces ==
  Loaded =>
    \A i \in DOMAIN boot.read :
      LET R == boot.read[i]
      IN  /\ boot.netns[R.NetNs] = "gone" =>
               ~\E k \in DOMAIN boot.loaded :
                  boot.loaded[k].clientID = R.ClientID
          /\ boot.netns[R.NetNs] = "ok" =>
               \E k \in DOMAIN boot.loaded :
                 boot.loaded[k] = ReloadedLease(R)

\* the reloaded lease l equals the persisted lease v in every field but the
\* link handle; times are compared as instants
SameLease(l, v) ==
  /\ l.clientID = v.clientID
  /\ l.ack = v.ack
  /\ l.link.name = v.link.name
  /\ l.renewalTime.wall = v.renewalTime.wall
  /\ l.rebindingTime.wall = v.rebindingTime.wall
  /\ l.expireTime.wall = v.expireTime.wall
  /\ l.k8sNamespace = v.k8sNamespace
  /\ l.k8sPodName = v.k8sPodName
  /\ l.netNs = v.netNs

\* C10: loading the file PersistActiveLeases wrote for a registry, with
\* every namespace and link present, yields for each lease of the registry
\* a lease equal to it in every field but the link handle
C10_RoundTrip ==
  ( /\ Loaded
    /\ boot.fileSt = "ok"
    /\ \A path \in DOMAIN boot.netns : boot.netns[path] = "ok" )
  => /\ Len(boot.loaded) = Cardinality(boot.prev)
     /\ \A v \in boot.prev :
          \E k \in DOMAIN boot.loaded : SameLease(boot.loaded[k], v)

\* the entries of the registry whose lease was made for the client id c
EntriesOf(c) == {k \in DOMAIN leases : heap[leases[k]].clientID = c}

\* C12: at every instant, through startup reconciliation, Allocate and
\* Release, the registry holds at most one lease for each client id
C12_OneLeasePerClient ==
  \A i \in DOMAIN heap : Cardinality(EntriesOf(heap[i].clientID)) <= 1

\* an Allocate has put a second lease for a client id whose reloaded lease
\* the registry held, and the registry holds the new one alone
C12_Witness ==
  \E c \in DOMAIN leases, i \in DOMAIN heap :
    /\ i # leases[c]
    /\ heap[i].clientID = c
    /\ heap[i].origin = "loaded"
    /\ heap[leases[c]].origin = "acquired"
    /\ EntriesOf(c) = {c}

\* call h is received in this step with a request that does not parse or
\* does not pass validation
ReceivesInvalid(h) == calls[h].pc = "idle" /\ calls'[h].conf # "ok"

\* call h returns an error in this step, with no lease acquired and the
\* leases, the registry and the file as they were
RejectedUntouched(h) ==
  /\ calls'[h].pc = "done"
  /\ calls'[h].ret = "config"
  /\ calls'[h].l = 0
  /\ heap' = heap
  /\ leases' = leases
  /\ file' = file

\* C13 as stated: an Allocate or a Release whose netconf or CNI args do not
\* parse, or whose options are not valid, returns an error, acquires no
\* lease and leaves the registry and the file unchanged
C13_InvalidRequestRejected ==
  [][\A h \in 1..MaxCalls : ReceivesInvalid(h) => RejectedUntouched(h)]_vars

\* C13, amended: the same of an Allocate, and of a Release whose netconf
\* does not parse (Release reads neither the args nor the options)
C13_InvalidRequestRejectedWhereRead ==
  [][\A h \in 1..MaxCalls :
       ( /\ ReceivesInvalid(h)
         /\ calls'[h].op = "Allocate" \/ calls'[h].conf = "badconf" )
       => RejectedUntouched(h)]_vars

\* an Allocate with options that are not valid and a Release with a netconf
\* that does not parse were turned away while the registry held a lease
C13_Witness ==
  /\ leases # EmptyRegistry
  /\ \E a, r \in 1..MaxCalls :
       /\ calls[a].op = "Allocate" /\ calls[a].conf = "badopts"
       /\ calls[a].pc = "done" /\ calls[a].ret = "config"
       /\ calls[r].op = "Release" /\ calls[r].conf = "badconf"
       /\ calls[r].pc = "done" /\ calls[r].ret = "config"

\* call h ends its persist in this step
EndsPersist(h) == calls[h].pc = "write" /\ calls'[h].pc = "done"

\* C14: a persist that fails after a registry mutation does not fail the
\* call (it returns success and the registry stays as it is), and a persist
\* that succeeds after one has failed leaves in the file the contents the
\* registry has then
C14_FailedPersistSuperseded ==
  [][\A h \in 1..MaxCalls :
       EndsPersist(h) =>
         /\ calls'[h].io = "failed" =>
               calls'[h].ret = "ok" /\ leases' = leases /\ heap' = heap
         /\ ( /\ calls'[h].io = "written"
               /\ \E g \in 1..MaxCalls : calls[g].io = "failed" )
             => file' = FileOf(LeasesToSave(leases', heap'))]_vars

\* the lease at address i is in the registry
InRegistry(i) == \E c \in DOMAIN leases : leases[c] = i

\* Release h calls Stop on its lease in this step
CallsStop(h) == calls[h].pc = "stop" /\ calls'[h].pc = "clear"

\* C15: Release removes the lease from the registry under the mutex, then
\* calls Stop on it, then persists: when Stop is called the lease is no
\* longer in the registry, and the persist has not begun
C15_RemoveThenStop ==
  [][\A h \in 1..MaxCalls :
       CallsStop(h) =>
         /\ ~InRegistry(calls[h].l)
         /\ calls[h].clientID \notin DOMAIN leases
         /\ calls[h].snap = {}]_vars

\* the steps of the handler of call g that lock the mutex: setLease,
\* getLease, clearLease
LockStep(g) ==
  \/ AllocateSetLease(g)
  \/ ReleaseGetLease(g)
  \/ ReleaseClearLease(g)

\* call g is in its handler, about to lock the mutex
Active(g) == calls[g].pc \in {"set", "get", "clear"}

\* call h, where it is, does not keep call g from the mutex: g can lock it
\* now, unless a call other than these two holds it
NotDelayedBy(g, h) == (ENABLED LockStep(g)) \/ mux \notin {0, g, h}

\* call h is where a handler calls Stop, in a daemon that runs: Release
\* before line 174, Allocate on its way to line 143
AtStop(h) == daemon = "serving" /\ calls[h].pc \in {"stop", "acquire"}

\* C16: a call does not hold the mutex where it calls Stop on a lease, and
\* while it is there every other call that is about to lock the mutex can
C16_StopOutsideMutex ==
  \A h \in 1..MaxCalls :
    AtStop(h) =>
      /\ mux # h
      /\ \A g \in 1..MaxCalls \ {h} : Active(g) => NotDelayedBy(g, h)

\* a Release is about to call Stop while another call waits to lock the
\* mutex, and the mutex is free
C16_Witness ==
  \E h, g \in 1..MaxCalls :
    /\ h # g
    /\ calls[h].pc = "stop"
    /\ calls[g].pc \in {"set", "get", "clear"}
    /\ mux = 0

\* C17: an Allocate that waits in AcquireLease does not hold the mutex, and
\* while it waits every call for another client id that is about to lock
\* the mutex can, the steps that do not lock being free of the mutex
C17_AcquireOutsideMutex ==
  \A h \in 1..MaxCalls :
    ( /\ daemon = "serving"
      /\ calls[h].op = "Allocate"
      /\ calls[h].pc = "acquire" ) =>
      /\ mux # h
      /\ \A g \in 1..MaxCalls \ {h} :
           (Active(g) /\ calls[g].clientID # calls[h].clientID)
             => NotDelayedBy(g, h)

\* while an Allocate waits in AcquireLease, a call for another client id
\* that came after it has inserted or removed its lease and returned
C17_Witness ==
  \E h, g \in 1..MaxCalls :
    /\ h < g
    /\ calls[h].op = "Allocate" /\ calls[h].pc = "acquire"
    /\ calls[g].clientID # calls[h].clientID
    /\ calls[g].pc = "done" /\ calls[g].ret = "ok"
    /\ calls[g].io = "written"

\* the instant t is not after the instant u
NotAfter(t, u) == t.wall <= u.wall

\* C20: every lease of the registry, inserted by Allocate or reinstated from
\* the file at startup, has its renewal time not after its rebinding time
\* and its rebinding time not after its expiry
C20_TimersOrdered ==
  \A c \in DOMAIN leases :
    LET v == heap[leases[c]]
    IN  /\ NotAfter(v.renewalTime, v.rebindingTime)
        /\ NotAfter(v.rebindingTime, v.expireTime)

\* the registry holds a lease reinstated from the file and a lease an
\* Allocate inserted
C20_Witness ==
  \E c, d \in DOMAIN leases :
    /\ heap[leases[c]].origin = "loaded"
    /\ heap[leases[c]].running
    /\ heap[leases[d]].origin = "acquired"
    /\ C20_TimersOrdered

(***************************************************************************)
(* generateClientID on identifiers of every length up to MaxContainerLen.  *)
(***************************************************************************)
daemonVars ==
  <<daemon, abortErr, file, boot, heap, leases, mux, calls, lastLock>>

\* no daemon runs
DaemonOff ==
  /\ daemon = "off"
  /\ abortErr = "none"
  /\ file = FileMissing
  /\ boot = NoBoot
  /\ heap = <<>>
  /\ leases = EmptyRegistry
  /\ mux = 0
  /\ calls = [h \in 1..MaxCalls |-> NoCall]
  /\ lastLock = EmptyRegistry

\* a container id of n bytes, hexadecimal digits as the runtime writes them
ContainerOfLen(n) == [i \in 1..n |-> IF i % 16 < 10 THEN 48 + (i % 16)
                                     ELSE 87 + (i % 16)]

\* network names of the configuration and interface names of CmdArgs
NetNames == {EmptyString, NetName, <<110, 101, 116>>}
IfNames == {IfName, <<101, 116, 104, 48>>}

InitClientID ==
  /\ DaemonOff
  /\ \E n \in 0..MaxContainerLen, netName \in NetNames, ifName \in IfNames :
       frame = [fn |-> "generateClientID", pc |-> "call",
                containerID |-> ContainerOfLen(n), netName |-> netName,
                ifName |-> ifName, clientID |-> EmptyString]

\* Allocate line 132, Release line 172: the call of generateClientID
GenerateClientID ==
  /\ frame.fn = "generateClientID"
  /\ frame.pc = "call"
  /\ frame' = [frame EXCEPT
                 !.pc = "returned",
                 !.clientID = generateClientID(frame.containerID,
                                               frame.netName, frame.ifName)]
  /\ UNCHANGED daemonVars

NextClientID == GenerateClientID

SpecClientID == InitClientID /\ [][NextClientID]_vars

\* the string generateClientID was called to cut
Whole == frame.containerID \o Slash \o frame.netName \o Slash \o frame.ifName

\* C11: the client id generateClientID returns is the string containerID
\* "/" netName "/" ifName when that has at most 254 bytes and its first 254
\* bytes otherwise; it never has more than 254 bytes
C11_ClientIDTruncated ==
  (frame.fn = "generateClientID" /\ frame.pc = "returned") =>
    /\ Len(Whole) <= 254 => frame.clientID = Whole
    /\ Len(Whole) > 254 => Len(frame.clientID) = 254
    /\ Len(frame.clientID) <= 254
    /\ \A i \in 1..Len(frame.clientID) : frame.clientID[i] = Whole[i]

\* a string of 255 bytes came back one byte shorter
C11_Witness ==
  /\ frame.fn = "generateClientID"
  /\ frame.pc = "returned"
  /\ Len(Whole) = 255
  /\ Len(frame.clientID) = 254
  /\ frame.clientID # Whole

(***************************************************************************)
(* The packet exchange.  A dhcp4.Packet is its bytes: a header of 240      *)
(* bytes that ends with the magic cookie, then the options, each a code, a *)
(* length and a value, then the End option and padding.                    *)
(***************************************************************************)
HeaderLen == 240
MinPacketLen == 272
End == 255
Pad == 0
OptionDHCPMessageType == 53
OptionRequestedIPAddress == 50
OptionServerIdentifier == 54
Discover == 1
Offer == 2
Request == 3
ACK == 5
NAK == 6
BootRequest == 1
BootReply == 2

\* Packet{}: what GetOffer and GetAcknowledgement return with an error
NoPacket == <<>>

\* the header of a packet: op, htype, hlen, xid, flags, yiaddr, siaddr,
\* chaddr and the cookie, zeros elsewhere
Header(op, xid, broadcast, yiaddr, siaddr, hw) ==
  [i \in 1..HeaderLen |->
     IF i = 1 THEN op
     ELSE IF i = 2 THEN 1
     ELSE IF i = 3 THEN Len(hw)
     ELSE IF i \in 5..8 THEN xid[i - 4]
     ELSE IF i = 11 THEN (IF broadcast THEN 128 ELSE 0)
     ELSE IF i \in 17..20 THEN yiaddr[i - 16]
     ELSE IF i \in 21..24 THEN siaddr[i - 20]
     ELSE IF i \in 29..(28 + Len(hw)) THEN hw[i - 28]
     ELSE IF i = 237 THEN 99
     ELSE IF i = 238 THEN 130
     ELSE IF i = 239 THEN 83
     ELSE IF i = 240 THEN 99
     ELSE 0]

\* dhcp4.NewPacket and the setters: the header and the End option
NewPacket(op, xid, broadcast, yiaddr, siaddr, hw) ==
  Header(op, xid, broadcast, yiaddr, siaddr, hw) \o <<End>>

\* Packet.AddOption: the End option is taken off, the code, the length and
\* the value are appended, and End is put back
AddOption(p, code, value) ==
  SubSeq(p, 1, Len(p) - 1) \o <<code, Len(value)>> \o value \o <<End>>

\* Packet.PadToMinSize
PadToMinSize(p) ==
  IF Len(p) < MinPacketLen
  THEN p \o [i \in 1..(MinPacketLen - Len(p)) |-> 0]
  ELSE p

RECURSIVE ParseFrom(_, _, _)
\* the loop of Packet.ParseOptions over the bytes of p from position i on,
\* with the options found so far
ParseFrom(p, i, found) ==
  IF i + 1 > Len(p) \/ p[i] = End THEN found
  ELSE IF p[i] = Pad THEN ParseFrom(p, i + 1, found)
  ELSE IF i + 1 + p[i + 1] > Len(p) THEN found
  ELSE ParseFrom(p, i + 2 + p[i + 1],
                 [c \in DOMAIN found \cup {p[i]} |->
                    IF c = p[i] THEN SubSeq(p, i + 2, i + 1 + p[i + 1])
                    ELSE found[c]])

\* Packet.ParseOptions: the options of the packet, by code
ParseOptions(p) == ParseFrom(p, HeaderLen + 1, EmptyRegistry)

\* the fields of a packet the client copies
XId(p) == SubSeq(p, 5, 8)
YIAddr(p) == SubSeq(p, 17, 20)
SIAddr(p) == SubSeq(p, 21, 24)

NoAddr == <<0, 0, 0, 0>>
HardwareAddr == <<2, 0, 0, 0, 0, 1>>
ServerAddr == <<10, 0, 0, 1>>
OfferedAddr == <<10, 0, 0, 5>>
\* the message ids the client can draw for a Discover
XIds == {<<0, 0, 0, 1>>, <<7, 91, 205, 21>>}

\* Client.DiscoverPacket of a client whose next message id is xid
DiscoverPacket(xid, broadcast) ==
  AddOption(NewPacket(BootRequest, xid, broadcast, NoAddr, NoAddr,
                      HardwareAddr),
            OptionDHCPMessageType, <<Discover>>)

\* Client.RequestPacket for an offer
RequestPacket(offerPacket, broadcast) ==
  AddOption(
    AddOption(
      AddOption(NewPacket(BootRequest, XId(offerPacket), broadcast, NoAddr,
                          SIAddr(offerPacket), HardwareAddr),
                OptionDHCPMessageType, <<Request>>),
      OptionRequestedIPAddress, YIAddr(offerPacket)),
    OptionServerIdentifier, ParseOptions(offerPacket)[OptionServerIdentifier])

\* the reply of the server with a message type, to the client's message id
ReplyPacket(xid, type) ==
  PadToMinSize(
    AddOption(
      AddOption(NewPacket(BootReply, xid, FALSE, OfferedAddr, ServerAddr,
                          HardwareAddr),
                OptionDHCPMessageType, <<type>>),
      OptionServerIdentifier, ServerAddr))

\* the options a lease sends: client identifier, parameter request list,
\* host name, vendor class identifier
OptionCodes == <<61, 55, 12, 60>>
OptionValue(code) ==
  IF code = 61 THEN <<0>> \o ContainerA \o Slash \o NetName \o Slash \o IfName
  ELSE IF code = 55 THEN <<1, 3, 121>>
  ELSE IF code = 12 THEN <<104, 49>>
  ELSE <<118>>

\* the option dictionaries: dhcp4.Options, a map from code to value
OptionDicts ==
  {[c \in S |-> OptionValue(c)] :
     S \in SUBSET {OptionCodes[k] : k \in 1..MaxOptions}}

RECURSIVE AddOptions(_, _, _)
\* the loop "for opt, data := range options { p.AddOption(opt, data) }",
\* lines 32-34 and 44-46, when the range meets the codes in the given order
AddOptions(p, options, order) ==
  IF order = <<>> THEN p
  ELSE AddOptions(AddOption(p, Head(order), options[Head(order)]), options,
                  Tail(order))

\* the packet DhcpSendDiscoverPacket builds, lines 30-36
BuildDiscover(xid, broadcast, options, order) ==
  PadToMinSize(AddOptions(DiscoverPacket(xid, broadcast), options, order))

\* the packet DhcpSendRequest builds, lines 42-48
BuildRequest(offerPacket, broadcast, options, order) ==
  PadToMinSize(AddOptions(RequestPacket(offerPacket, broadcast), options,
                          order))

(***************************************************************************)
(* DhcpRequest, phase by phase.                                            *)
(***************************************************************************)
\* the three values DhcpRequest returns; err is "nil" or the error
Return(success, packet, err) ==
  [success |-> success, packet |-> packet, err |-> err]

NoReturn == Return(FALSE, NoPacket, "none")

\* a DhcpRequest that answers a reply that is no ACK as DhcpRenew does
NakReturnWithError(acknowledgement) ==
  Return(FALSE, acknowledgement, "dhcp server responded")

\* a DhcpRequest that takes a reply that is no ACK for a success
NakReturnSuccess(acknowledgement) == Return(TRUE, acknowledgement, "nil")

\* DhcpRequest, line 90: the reply is no ACK
NakReturn(acknowledgement) == Return(FALSE, acknowledgement, "nil")

\* DhcpRequest, lines 88-93: the return for an acknowledgement received
CheckAcknowledgement(acknowledgement) ==
  LET acknowledgementOptions == ParseOptions(acknowledgement)
  IN  IF acknowledgementOptions[OptionDHCPMessageType][1] # ACK
      THEN NakReturn(acknowledgement)
      ELSE Return(TRUE, acknowledgement, "nil")

InitRequest ==
  /\ DaemonOff
  /\ \E options \in OptionDicts, xid \in XIds, broadcast \in BOOLEAN :
       frame = [fn |-> "DhcpRequest", pc |-> "discover",
                options |-> options, xid |-> xid, broadcast |-> broadcast,
                discoveryPacket |-> NoPacket, offerPacket |-> NoPacket,
                requestPacket |-> NoPacket, acknowledgement |-> NoPacket,
                failed |-> "none", reply |-> 0, ret |-> NoReturn]

\* a DhcpRequest that goes on to await the offer when the discover could
\* not be sent
ReturnsAfterOffer(ret, failed) ==
  [frame EXCEPT !.pc = IF failed = "discover" THEN "offer" ELSE "returned",
                !.ret = ret, !.failed = failed]

\* DhcpRequest returns ret; failed names the phase that failed
Returns(ret, failed) ==
  [frame EXCEPT !.pc = "returned", !.ret = ret, !.failed = failed]

\* lines 68-71: DhcpSendDiscoverPacket, lines 29-38
RequestSendDiscover ==
  /\ frame.fn = "DhcpRequest"
  /\ frame.pc = "discover"
  /\ \E order \in Orders(DOMAIN frame.options), sent \in BOOLEAN :
       LET discoveryPacket == BuildDiscover(frame.xid, frame.broadcast,
                                            frame.options, order)
       IN  frame' =
             IF sent
             THEN [frame EXCEPT !.pc = "offer",
                                !.discoveryPacket = discoveryPacket]
             ELSE [Returns(Return(FALSE, discoveryPacket, "send"), "discover")
                     EXCEPT !.discoveryPacket = discoveryPacket]
  /\ UNCHANGED daemonVars

\* lines 73-76: Client.GetOffer
RequestGetOffer ==
  /\ frame.fn = "DhcpRequest"
  /\ frame.pc = "offer"
  /\ \E got \in BOOLEAN :
       frame' =
         IF got
         THEN [frame EXCEPT
                 !.pc = "request",
                 !.offerPacket = ReplyPacket(XId(frame.discoveryPacket), Offer)]
         ELSE Returns(Return(FALSE, NoPacket, "timeout"), "offer")
  /\ UNCHANGED daemonVars

\* lines 78-81: DhcpSendRequest, lines 41-51
RequestSendRequest ==
  /\ frame.fn = "DhcpRequest"
  /\ frame.pc = "request"
  /\ \E order \in Orders(DOMAIN frame.options), sent \in BOOLEAN :
       LET requestPacket == BuildRequest(frame.offerPacket, frame.broadcast,
                                         frame.options, order)
       IN  frame' =
             IF sent
             THEN [frame EXCEPT !.pc = "ack", !.requestPacket = requestPacket]
             ELSE [Returns(Return(FALSE, requestPacket, "send"), "request")
                     EXCEPT !.requestPacket = requestPacket]
  /\ UNCHANGED daemonVars

\* lines 83-93: Client.GetAcknowledgement, which returns an error or a reply
\* to the request that is an ACK or a NAK, and the check of its type
RequestGetAcknowledgement ==
  /\ frame.fn = "DhcpRequest"
  /\ frame.pc = "ack"
  /\ \/ frame' = Returns(Return(FALSE, NoPacket, "timeout"), "ack")
     \/ \E type \in {ACK, NAK} :
          LET acknowledgement == ReplyPacket(XId(frame.requestPacket), type)
          IN  frame' = [Returns(CheckAcknowledgement(acknowledgement), "none")
                          EXCEPT !.acknowledgement = acknowledgement,
                                 !.reply = type]
  /\ UNCHANGED daemonVars

NextRequest ==
  \/ RequestSendDiscover
  \/ RequestGetOffer
  \/ RequestSendRequest
  \/ RequestGetAcknowledgement

SpecRequest == InitRequest /\ [][NextRequest]_vars

\* DhcpRequest has returned
Returned == frame.fn = "DhcpRequest" /\ frame.pc = "returned"

\* C18: DhcpRequest returns success exactly when no phase failed and the
\* server's reply is an ACK; when a phase failed it returns no success and
\* an error; when the reply is no ACK it returns no success, the reply and
\* no error
C18_RequestOutcomes ==
  Returned =>
    /\ frame.ret.success <=> (frame.failed = "none" /\ frame.reply = ACK)
    /\ frame.failed # "none" =>
          ~frame.ret.success /\ frame.ret.err \notin {"nil", "none"}
    /\ (frame.failed = "none" /\ frame.reply # ACK) =>
          /\ ~frame.ret.success
          /\ frame.ret.packet = frame.acknowledgement
          /\ frame.ret.packet # NoPacket
          /\ frame.ret.err = "nil"

\* the server answered the request with a NAK
C18_Witness ==
  /\ Returned
  /\ frame.failed = "none"
  /\ frame.reply = NAK
  /\ ~frame.ret.success
  /\ frame.ret.err = "nil"
  /\ Cardinality(DOMAIN frame.options) = 2

(***************************************************************************)
(* One option dictionary assembled into two packets of the same kind, for  *)
(* the same message id: the range over the Go map visits the entries in an *)
(* order of its own each time.                                             *)
(***************************************************************************)
\* the packet of a kind that the helper pads and sends
Assemble(kind, xid, broadcast, options, order) ==
  IF kind = "discover"
  THEN BuildDiscover(xid, broadcast, options, order)
  ELSE BuildRequest(ReplyPacket(xid, Offer), broadcast, options, order)

InitAssemble ==
  /\ DaemonOff
  /\ \E kind \in {"discover", "request"}, options \in OptionDicts,
        xid \in XIds, broadcast \in BOOLEAN :
       frame = [fn |-> "assemble", pc |-> "first", kind |-> kind,
                options |-> options, xid |-> xid, broadcast |-> broadcast,
                first |-> NoPacket, second |-> NoPacket]

\* DhcpSendDiscoverPacket lines 30-36, DhcpSendRequest lines 42-48
AssembleFirst ==
  /\ frame.fn = "assemble"
  /\ frame.pc = "first"
  /\ \E order \in Orders(DOMAIN frame.options) :
       frame' = [frame EXCEPT
                   !.pc = "second",
                   !.first = Assemble(frame.kind, frame.xid, frame.broadcast,
                                      frame.options, order)]
  /\ UNCHANGED daemonVars

\* the same helper called again with the same dictionary
AssembleSecond ==
  /\ frame.fn = "assemble"
  /\ frame.pc = "second"
  /\ \E order \in Orders(DOMAIN frame.options) :
       frame' = [frame EXCEPT
                   !.pc = "done",
                   !.second = Assemble(frame.kind, frame.xid, frame.broadcast,
                                       frame.options, order)]
  /\ UNCHANGED daemonVars

NextAssemble == AssembleFirst \/ AssembleSecond

SpecAssemble == InitAssemble /\ [][NextAssemble]_vars

\* C19: two packets assembled from the same option dictionary are the same
\* bytes after padding, in whatever order the entries were visited
C19_AssemblyIdempotent ==
  (frame.fn = "assemble" /\ frame.pc = "done") => frame.first = frame.second

(***************************************************************************)
(* The shutdown subcommand: a process of its own that posts the condition  *)
(* NetworkUnavailable to the status of the node and returns.               *)
(***************************************************************************)
\* seconds the clientset of shutdown waits for the API server
ApiTimeout == 2

NodeA == <<110, 49>>
NodeB == <<110, 50>>
NodeC == <<110, 51>>
\* what the environment variable NODENAME can hold
NodeNames == {EmptyString, NodeA, NodeB, NodeC}

\* the NodeCondition SetNodeIsOfflineState builds for value
NodeCondition(value) ==
  IF value
  THEN [type |-> "NetworkUnavailable", status |-> "True",
        reason |-> "DHCPIsDown"]
  ELSE [type |-> "NetworkUnavailable", status |-> "False",
        reason |-> "DHCPIsUp"]

NoCondition == [type |-> "NetworkUnavailable", status |-> "Unknown",
                reason |-> "none"]

\* the conditions the nodes of the cluster, NodeA and NodeB, can have
NodeStates ==
  [{NodeA, NodeB} ->
     {NoCondition, NodeCondition(FALSE), NodeCondition(TRUE)}]

\* SetNodeIsOfflineState when the API server answers: the nodes and the
\* error after PatchStatus of the node named nodename; answer is what the
\* server does with a request for a node it has
SetNodeIsOfflineState(nodes, nodename, value, answer) ==
  IF nodename \notin DOMAIN nodes THEN [nodes |-> nodes, err |-> "notfound"]
  ELSE IF answer = "refused" THEN [nodes |-> nodes, err |-> "forbidden"]
  ELSE [nodes |-> [nodes EXCEPT ![nodename] = NodeCondition(value)],
        err |-> "nil"]

\* a shutdown that hands the error on to the process, which exits with it
ShutdownFailsOnError(fr, err) ==
  [fr EXCEPT !.pc = "returned", !.failure = err,
             !.log = Append(@, "failed to connect to Kubernetes")]

\* shutdown, lines 59-62 and 65-68: the error is printed and shutdown
\* returns; it has no result to carry an error in
ShutdownOnError(fr, err) ==
  [fr EXCEPT !.pc = "returned", !.err = err,
             !.log = Append(@, "failed to connect to Kubernetes")]

InitShutdown ==
  /\ DaemonOff
  /\ \E inCluster \in BOOLEAN, nodename \in NodeNames, nodes \in NodeStates :
       frame = [fn |-> "shutdown", pc |-> "config", inCluster |-> inCluster,
                nodename |-> nodename, nodes |-> nodes, timeout |-> 0,
                waited |-> 0, err |-> "nil", log |-> <<>>,
                failure |-> "none"]

\* shutdown, lines 54-55: rest.InClusterConfig; outside a cluster shutdown
\* returns at once and prints nothing
ShutdownConfig ==
  /\ frame.fn = "shutdown"
  /\ frame.pc = "config"
  /\ frame' = IF frame.inCluster
              THEN [frame EXCEPT !.pc = "clientset", !.timeout = ApiTimeout]
              ELSE [frame EXCEPT !.pc = "returned", !.err = "config"]
  /\ UNCHANGED daemonVars

\* shutdown, lines 58-62: kubernetes.NewForConfig
ShutdownClientset ==
  /\ frame.fn = "shutdown"
  /\ frame.pc = "clientset"
  /\ \E ok \in BOOLEAN :
       frame' = IF ok THEN [frame EXCEPT !.pc = "patch"]
                ELSE ShutdownOnError(frame, "clientset")
  /\ UNCHANGED daemonVars

\* SetNodeIsOfflineState, line 46: a second passes with no answer
ShutdownPatchWait ==
  /\ frame.fn = "shutdown"
  /\ frame.pc = "patch"
  /\ frame.waited < frame.timeout
  /\ frame' = [frame EXCEPT !.waited = @ + 1]
  /\ UNCHANGED daemonVars

\* shutdown, lines 64-68, SetNodeIsOfflineState lines 16-51: the server
\* answers the patch within the timeout
ShutdownPatchAnswer ==
  /\ frame.fn = "shutdown"
  /\ frame.pc = "patch"
  /\ frame.waited < frame.timeout
  /\ \E answer \in {"applied", "refused"} :
       LET r == SetNodeIsOfflineState(frame.nodes, frame.nodename, TRUE,
                                      answer)
       IN  frame' = IF r.err = "nil"
                    THEN [frame EXCEPT !.pc = "returned", !.nodes = r.nodes]
                    ELSE ShutdownOnError(frame, r.err)
  /\ UNCHANGED daemonVars

\* shutdown, lines 55 and 64-68: the timeout of the clientset ends the
\* request, whether or not the server has applied the patch by then
ShutdownPatchTimeout ==
  /\ frame.fn = "shutdown"
  /\ frame.pc = "patch"
  /\ frame.waited = frame.timeout
  /\ \E answer \in {"applied", "refused"} :
       frame' = [ShutdownOnError(frame, "timeout") EXCEPT
                   !.nodes = SetNodeIsOfflineState(frame.nodes,
                                                   frame.nodename, TRUE,
                                                   answer).nodes]
  /\ UNCHANGED daemonVars

NextShutdown ==
  \/ ShutdownConfig
  \/ ShutdownClientset
  \/ ShutdownPatchWait
  \/ ShutdownPatchAnswer
  \/ ShutdownPatchTimeout

\* the process of the subcommand runs until shutdown returns
SpecShutdown ==
  InitShutdown /\ [][NextShutdown]_vars /\ WF_vars(NextShutdown)

\* shutdown has returned
ShutdownReturned == frame.fn = "shutdown" /\ frame.pc = "returned"

\* shutdown returned without reporting a failure, and what went wrong with
\* the clientset or the patch is in the log
FailureOnlyLogged ==
  /\ frame.failure = "none"
  /\ frame.err \in {"clientset", "notfound", "forbidden", "timeout"}
       => frame.log = <<"failed to connect to Kubernetes">>

MaxClock == 6

\* Packet.SetCIAddr
SetCIAddr(p, addr) ==
  [i \in 1..Len(p) |-> IF i \in 13..16 THEN addr[i - 12] ELSE p[i]]

\* Client.RenewalRequestPacket for an acknowledgement
RenewalRequestPacket(acknowledgement, xid, broadcast) ==
  AddOption(
    AddOption(
      AddOption(SetCIAddr(NewPacket(BootRequest, xid, broadcast, NoAddr,
                                    SIAddr(acknowledgement), HardwareAddr),
                          YIAddr(acknowledgement)),
                OptionDHCPMessageType, <<Request>>),
      OptionRequestedIPAddress, YIAddr(acknowledgement)),
    OptionServerIdentifier,
    ParseOptions(acknowledgement)[OptionServerIdentifier])

\* a DhcpRenew that takes every reply for an acknowledgement
RenewReturnAnyReply(newAcknowledgement) ==
  Return(TRUE, newAcknowledgement, "nil")

\* DhcpRenew, lines 117-123: the return for a reply received
RenewReturn(newAcknowledgement) ==
  LET newAcknowledgementOptions == ParseOptions(newAcknowledgement)
  IN  IF newAcknowledgementOptions[OptionDHCPMessageType][1] # ACK
      THEN Return(FALSE, newAcknowledgement, "dhcp server responded")
      ELSE Return(TRUE, newAcknowledgement, "nil")

\* what the network does with one exchange: the send fails, no reply comes
\* within the timeout, or the server replies
Exchanges == {"sendfail", "timeout", "ack", "nak"}

\* DhcpRenew, lines 98-124, for a client that draws the message id xid
DhcpRenew(acknowledgement, options, order, xid, broadcast, exchange) ==
  LET renewRequest ==
        PadToMinSize(AddOptions(RenewalRequestPacket(acknowledgement, xid,
                                                     broadcast),
                                options, order))
  IN  IF exchange = "sendfail" THEN Return(FALSE, renewRequest, "send")
      ELSE IF exchange = "timeout" THEN Return(FALSE, NoPacket, "timeout")
      ELSE RenewReturn(ReplyPacket(XId(renewRequest),
                                   IF exchange = "ack" THEN ACK ELSE NAK))

\* the lease time the server grants, in ticks of the clock, and the renewal
\* and rebinding times the client takes from it: a half and seven eighths
LeaseTime == 4
RenewAfter == LeaseTime \div 2
RebindAfter == (LeaseTime * 7) \div 8
ExpireAfter == LeaseTime

\* the lease once the acknowledgement ack has bound it at the instant t
Bound(l, ack, t) ==
  [l EXCEPT !.ack = ack,
            !.renewalTime = Time(t + RenewAfter, 1),
            !.rebindingTime = Time(t + RebindAfter, 1),
            !.expireTime = Time(t + ExpireAfter, 1)]

\* the options the lease of the maintainer sends: its client identifier
LeaseOptions == [c \in {OptionCodes[1]} |-> OptionValue(c)]

\* the message id the client of the maintainer draws at the instant t
XIdAt(t) == <<7, 91, 205, t>>

\* a serving daemon whose registry holds one lease, bound at the instant 0,
\* and the maintainer of that lease
InitMaintain ==
  /\ daemon = "serving"
  /\ abortErr = "none"
  /\ boot = [NoBoot EXCEPT !.wrote = "written"]
  /\ heap = <<Bound(LeaseFor(ContainerA), ReplyPacket(XIdAt(0), ACK), 0)>>
  /\ leases = MapSet(EmptyRegistry,
                     generateClientID(ContainerA, NetName, IfName), 1)
  /\ file = FileOf(LeasesToSave(leases, heap))
  /\ mux = 0
  /\ calls = [h \in 1..MaxCalls |-> NoCall]
  /\ lastLock = MapSet(EmptyRegistry,
                       generateClientID(ContainerA, NetName, IfName),
                       "Allocate")
  /\ frame = [fn |-> "maintain", l |-> 1, state |-> "BOUND", now |-> 0,
              options |-> LeaseOptions, offerPacket |-> NoPacket,
              sent |-> "none", broadcast |-> FALSE, reply |-> 0,
              success |-> FALSE, err |-> "none"]

\* the maintainer runs: it is the worker of a lease nobody has stopped
Maintaining(state) ==
  /\ frame.fn = "maintain"
  /\ frame.state = state
  /\ heap[frame.l].running

\* the message type of the reply of an exchange, 0 when there is none
ReplyOf(exchange) ==
  IF exchange = "ack" THEN ACK ELSE IF exchange = "nak" THEN NAK ELSE 0

\* the instants an exchange begun at now can end at
EndsOf(now) == {t \in {now, now + 1} : t <= MaxClock}

\* BOUND: the worker sleeps until the renewal time
MaintainSleep ==
  /\ Maintaining("BOUND")
  /\ frame.now < heap[frame.l].renewalTime.wall
  /\ frame.now < MaxClock
  /\ frame' = [frame EXCEPT !.now = @ + 1]
  /\ UNCHANGED daemonVars

\* BOUND: the wake-up at the renewal time
MaintainWake ==
  /\ Maintaining("BOUND")
  /\ frame.now >= heap[frame.l].renewalTime.wall
  /\ frame' = [frame EXCEPT !.state = "RENEWING", !.sent = "none",
                            !.reply = 0]
  /\ UNCHANGED daemonVars

\* the frame and the lease after DhcpRenew returned r at the instant t in
\* the state the deadline of which is deadline and the next state next
AfterRenew(r, exchange, t, broadcast, deadline, next) ==
  [frame |-> [frame EXCEPT
                !.now = t,
                !.sent = "renew",
                !.broadcast = broadcast,
                !.reply = ReplyOf(exchange),
                !.success = r.success,
                !.err = r.err,
                !.state = IF r.success THEN "BOUND"
                          ELSE IF r.err = "dhcp server responded"
                          THEN "EXPIRED"
                          ELSE IF t >= deadline THEN next
                          ELSE @],
   lease |-> IF r.success THEN Bound(heap[frame.l], r.packet, t)
             ELSE heap[frame.l]]

\* RENEWING: one unicast DhcpRenew to the server of the acknowledgement
MaintainRenew ==
  /\ Maintaining("RENEWING")
  /\ \E order \in Orders(DOMAIN frame.options), xid \in {XIdAt(frame.now)},
        exchange \in Exchanges, t \in EndsOf(frame.now) :
       LET a == AfterRenew(DhcpRenew(heap[frame.l].ack, frame.options, order,
                                     xid, FALSE, exchange),
                           exchange, t, FALSE,
                           heap[frame.l].rebindingTime.wall, "REBINDING")
       IN  /\ frame' = a.frame
           /\ heap' = [heap EXCEPT ![frame.l] = a.lease]
  /\ UNCHANGED <<daemon, abortErr, file, boot, leases, mux, calls, lastLock>>

\* REBINDING: one broadcast DhcpRenew
MaintainRebind ==
  /\ Maintaining("REBINDING")
  /\ \E order \in Orders(DOMAIN frame.options), xid \in {XIdAt(frame.now)},
        exchange \in Exchanges, t \in EndsOf(frame.now) :
       LET a == AfterRenew(DhcpRenew(heap[frame.l].ack, frame.options, order,
                                     xid, TRUE, exchange),
                           exchange, t, TRUE,
                           heap[frame.l].expireTime.wall, "EXPIRED")
       IN  /\ frame' = a.frame
           /\ heap' = [heap EXCEPT ![frame.l] = a.lease]
  /\ UNCHANGED <<daemon, abortErr, file, boot, leases, mux, calls, lastLock>>

\* EXPIRED: the binding is given up and the worker starts over
MaintainExpire ==
  /\ Maintaining("EXPIRED")
  /\ frame' = [frame EXCEPT !.state = "SELECTING", !.sent = "none",
                            !.reply = 0, !.success = FALSE]
  /\ UNCHANGED daemonVars

\* SELECTING: DhcpRequest lines 68-76, the Discover and the Offer
MaintainDiscover ==
  /\ Maintaining("SELECTING")
  /\ \E order \in Orders(DOMAIN frame.options), xid \in {XIdAt(frame.now)},
        exchange \in {"sendfail", "timeout", "offer"},
        t \in EndsOf(frame.now) :
       LET discoveryPacket == BuildDiscover(xid, TRUE, frame.options, order)
       IN  frame' =
             IF exchange = "offer"
             THEN [frame EXCEPT
                     !.now = t, !.sent = "discover", !.broadcast = TRUE,
                     !.state = "REQUESTING",
                     !.offerPacket = ReplyPacket(XId(discoveryPacket), Offer)]
             ELSE [frame EXCEPT
                     !.now = t, !.sent = "discover", !.broadcast = TRUE,
                     !.err = IF exchange = "sendfail" THEN "send"
                             ELSE "timeout"]
  /\ UNCHANGED daemonVars

\* REQUESTING: DhcpRequest lines 78-93, the Request and the acknowledgement
MaintainRequest ==
  /\ Maintaining("REQUESTING")
  /\ \E order \in Orders(DOMAIN frame.options), exchange \in Exchanges,
        t \in EndsOf(frame.now) :
       LET requestPacket == BuildRequest(frame.offerPacket, TRUE,
                                         frame.options, order)
           r == IF exchange = "sendfail"
                THEN Return(FALSE, requestPacket, "send")
                ELSE IF exchange = "timeout"
                THEN Return(FALSE, NoPacket, "timeout")
                ELSE CheckAcknowledgement(
                       ReplyPacket(XId(requestPacket), ReplyOf(exchange)))
       IN  /\ frame' = [frame EXCEPT
                          !.now = t, !.sent = "request", !.broadcast = TRUE,
                          !.reply = ReplyOf(exchange),
                          !.success = r.success, !.err = r.err,
                          !.offerPacket = NoPacket,
                          !.state = IF r.success THEN "BOUND"
                                    ELSE "SELECTING"]
           /\ heap' = [heap EXCEPT ![frame.l] =
                         IF r.success THEN Bound(@, r.packet, t) ELSE @]
  /\ UNCHANGED <<daemon, abortErr, file, boot, leases, mux, calls, lastLock>>

\* the worker sees that Stop was called and ends
MaintainStopped ==
  /\ frame.fn = "maintain"
  /\ frame.state # "STOPPED"
  /\ heap[frame.l].stopped
  /\ frame' = [frame EXCEPT !.state = "STOPPED", !.offerPacket = NoPacket]
  /\ UNCHANGED daemonVars

\* a step of the maintainer
MaintainStep ==
  \/ MaintainSleep
  \/ MaintainWake
  \/ MaintainRenew
  \/ MaintainRebind
  \/ MaintainExpire
  \/ MaintainDiscover
  \/ MaintainRequest
  \/ MaintainStopped

\* a Release is received
ReceiveRelease(h) == Receive(h) /\ calls'[h].op = "Release"

\* the maintainer beside the handler of one Release
NextMaintain ==
  \/ MaintainSleep
  \/ MaintainWake
  \/ MaintainRenew
  \/ MaintainRebind
  \/ MaintainExpire
  \/ MaintainDiscover
  \/ MaintainRequest
  \/ MaintainStopped
  \/ \E h \in {1} : ReceiveRelease(h)
  \/ \E h \in {1} : ReleaseGetLease(h)
  \/ \E h \in {1} : ReleaseStop(h)
  \/ \E h \in {1} : ReleaseClearLease(h)
  \/ \E h \in {1} : PersistWrite(h)

SpecMaintain == InitMaintain /\ [][NextMaintain]_vars

\* the lease of the maintainer, before and after the step
Lease == heap[frame.l]
LeaseAfter == heap'[frame.l]

\* the maintainer, in the given state, ends an exchange in this step
Attempts(state) ==
  /\ frame.fn = "maintain"
  /\ frame.state = state
  /\ frame' # frame
  /\ frame'.state # "STOPPED"

\* C22: a bound lease sleeps no longer than to its renewal time and wakes
\* into RENEWING, where it sends unicast renewals; a renewal that has not
\* succeeded at the rebinding time leaves RENEWING for REBINDING (or, on a
\* NAK, gives the binding up), where the renewals are broadcast; a rebind
\* that has not succeeded at the expiry gives the binding up, and the lease
\* goes on to SELECTING; an ACK in RENEWING or REBINDING, and nothing else,
\* takes the lease back to BOUND
C22_RenewRebindExpire ==
  [][/\ (frame.fn = "maintain" /\ frame.state = "BOUND" /\ Lease.running)
          => frame.now <= Lease.renewalTime.wall
     /\ Attempts("BOUND") /\ frame'.state # "BOUND"
          => /\ frame'.state = "RENEWING"
             /\ frame.now >= Lease.renewalTime.wall
     /\ Attempts("RENEWING")
          => /\ frame'.sent = "renew" /\ ~frame'.broadcast
             /\ frame'.reply = ACK <=> frame'.state = "BOUND"
             /\ (frame'.reply # ACK
                   /\ frame'.now >= Lease.rebindingTime.wall)
                  => frame'.state =
                       IF frame'.reply = NAK THEN "EXPIRED" ELSE "REBINDING"
             /\ frame'.state = "REBINDING"
                  => frame'.now >= Lease.rebindingTime.wall
     /\ Attempts("REBINDING")
          => /\ frame'.sent = "renew" /\ frame'.broadcast
             /\ frame'.reply = ACK <=> frame'.state = "BOUND"
             /\ (frame'.reply # ACK /\ frame'.now >= Lease.expireTime.wall)
                  => frame'.state = "EXPIRED"
     /\ Attempts("EXPIRED") => frame'.state = "SELECTING"
    ]_vars

\* the lease woke, its renewals failed up to the rebinding time, and the
\* ACK of a rebind took it back to BOUND with a new acknowledgement
C22_Witness ==
  /\ frame.fn = "maintain"
  /\ frame.state = "BOUND"
  /\ frame.sent = "renew"
  /\ frame.broadcast
  /\ frame.reply = ACK
  /\ frame.now >= RebindAfter
  /\ heap[frame.l].ack # ReplyPacket(XIdAt(0), ACK)
  /\ heap[frame.l].renewalTime.wall = frame.now + RenewAfter

\* the maintainer takes a step
Maintains == frame.fn = "maintain" /\ frame' # frame

\* the lease has lost its binding and has not bound anew
Lost == frame.fn = "maintain"
        /\ frame.state \in {"EXPIRED", "SELECTING", "REQUESTING"}

\* no Release has taken the lease of the maintainer out of the registry
NotReleased ==
  \A h \in 1..MaxCalls :
    ~(calls[h].op = "Release" /\ calls[h].l = frame.l
        /\ calls[h].pc \in {"write", "done"})

\* C24: when renewal and rebinding have failed past the expiry the lease
\* goes to SELECTING and the registry keeps it; no step of the maintainer
\* changes the registry, and the acknowledgement of the lease changes only
\* in a step that binds the lease anew on an ACK
C24_ExpiredLeaseKept ==
  [][/\ (Lost /\ NotReleased)
          => /\ Lease.clientID \in DOMAIN leases
             /\ leases[Lease.clientID] = frame.l
     /\ Maintains => leases' = leases
     /\ (Attempts("REBINDING") /\ frame'.reply # ACK
           /\ frame'.now >= Lease.expireTime.wall)
          => frame'.state = "EXPIRED" /\ LeaseAfter.ack = Lease.ack
     /\ Attempts("EXPIRED")
          => frame'.state = "SELECTING" /\ LeaseAfter.ack = Lease.ack
     /\ (frame.fn = "maintain" /\ LeaseAfter.ack # Lease.ack)
          => /\ frame'.state = "BOUND"
             /\ frame'.success
             /\ frame'.reply = ACK
             /\ ParseOptions(LeaseAfter.ack)[OptionDHCPMessageType] = <<ACK>>
    ]_vars

\* the lease expired with the acknowledgement it was bound with, and a
\* Release that came for its client id found it in the registry
C24_Witness ==
  /\ frame.fn = "maintain"
  /\ frame.state = "SELECTING"
  /\ frame.sent = "discover"
  /\ frame.now >= ExpireAfter
  /\ heap[frame.l].ack = ReplyPacket(XIdAt(0), ACK)
  /\ \E h \in 1..MaxCalls :
       /\ calls[h].op = "Release"
       /\ calls[h].pc = "stop"
       /\ calls[h].l = frame.l
  /\ leases[heap[frame.l].clientID] = frame.l

\* call h of Release calls l.Stop() in this step
Stops(h) == calls[h].op = "Release" /\ calls[h].pc = "stop"
            /\ calls'[h].pc # "stop"

\* C23: a Stop leaves the lease stopped with its maintainer ended, whether
\* or not the lease was stopped before; on a stopped lease it changes
\* nothing, the Release that called it goes on to clearLease and the daemon
\* keeps serving; a Release that ran to its end returned no error
C23_StopIdempotent ==
  [][\A h \in 1..MaxCalls :
       /\ Stops(h)
            => /\ heap'[calls[h].l].stopped
               /\ ~heap'[calls[h].l].running
               /\ heap[calls[h].l].stopped => heap' = heap
               /\ calls'[h].pc = "clear"
               /\ daemon' = daemon
       /\ (calls'[h].op = "Release" /\ calls'[h].pc = "done")
            => calls'[h].ret \in {"ok", "config"}
    ]_vars

\* two Releases got the same lease from getLease and both have called its
\* Stop; both returned without an error
C23_Witness ==
  /\ calls[1].op = "Release" /\ calls[2].op = "Release"
  /\ calls[1].l # 0 /\ calls[1].l = calls[2].l
  /\ calls[1].pc = "done" /\ calls[2].pc = "done"
  /\ calls[1].ret = "ok" /\ calls[2].ret = "ok"
  /\ heap[calls[1].l].stopped
  /\ ~heap[calls[1].l].running

\* the phases of DhcpRequest in the order of its body, and the return
Phases == <<"discover", "offer", "request", "ack", "returned">>

PhaseNo(pc) == CHOOSE k \in 1..Len(Phases) : Phases[k] = pc

\* C25: DhcpRequest goes through send Discover, receive Offer, send Request,
\* receive Acknowledgement in this order, one phase after the other, and a
\* phase that fails is the last one: nothing of a later phase exists. No
\* request is built unless an offer was received and no acknowledgement is
\* awaited or received unless the request was sent
C25_PhasesInOrder ==
  [][frame.fn = "DhcpRequest" =>
       /\ frame'.pc \in {Phases[PhaseNo(frame.pc) + 1], "returned"}
       /\ frame.pc = "returned" => frame' = frame
       /\ frame'.pc # "returned" => frame'.failed = "none"
       /\ frame'.failed # "none" => frame'.failed = frame.pc
       /\ frame'.offerPacket # NoPacket =>
            /\ frame'.discoveryPacket # NoPacket
            /\ frame'.failed # "discover"
       /\ frame'.requestPacket # NoPacket =>
            /\ frame'.offerPacket # NoPacket
            /\ frame'.failed \notin {"discover", "offer"}
       /\ (frame'.pc = "ack" \/ frame'.failed = "ack"
             \/ frame'.acknowledgement # NoPacket \/ frame'.reply # 0) =>
            /\ frame'.requestPacket # NoPacket
            /\ frame'.failed \notin {"discover", "offer", "request"}
    ]_vars

\* the offer did not come: DhcpRequest returned the error with no request
\* built and no acknowledgement awaited
C25_Witness ==
  /\ Returned
  /\ frame.failed = "offer"
  /\ frame.discoveryPacket # NoPacket
  /\ frame.requestPacket = NoPacket
  /\ frame.acknowledgement = NoPacket
  /\ ~frame.ret.success

\* newDHCP is at work or has just returned
Starting == daemon \in {"reconcile", "mark", "aborted"}

\* C26: the loop of newDHCP asks the cluster for the pod of a reloaded lease
\* exactly when the lease has a pod name; a lease without one is put into
\* the registry under its client id and its maintainer is started, with no
\* query made for it
C26_QueryOnlyWithIdentity ==
  Starting =>
    \A i \in 1..Len(boot.recon) :
      LET val == boot.loaded[i]
          did == boot.recon[i]
      IN  /\ did.pod # "noquery" <=> val.k8sPodName # EmptyString
          /\ val.k8sPodName = EmptyString =>
               /\ did.l # 0
               /\ val.clientID \in DOMAIN leases
               /\ leases[val.clientID] = did.l
               /\ did.start \in {"ok", "err"}
               /\ did.start = "ok" => heap[did.l].running

\* newDHCP returned after it kept a lease with no pod name without a query
\* and a lease whose pod the cluster found
C26_Witness ==
  /\ daemon = "mark"
  /\ \E i, j \in 1..Len(boot.recon) :
       /\ boot.loaded[i].k8sPodName = EmptyString
       /\ boot.recon[i].pod = "noquery"
       /\ boot.recon[i].start = "ok"
       /\ heap[boot.recon[i].l].running
       /\ boot.loaded[j].k8sPodName # EmptyString
       /\ boot.recon[j].pod = "found"

\* an Allocate has acquired lease i and is on its way to setLease
BeingInserted(i) ==
  \E h \in 1..MaxCalls :
    calls[h].op = "Allocate" /\ calls[h].pc = "set" /\ calls[h].l = i

\* C27: every lease whose maintainer runs and that was not stopped is the
\* entry the registry has for its client id, but for a lease an Allocate is
\* about to put there
C27_RunningIsRegistered ==
  \A i \in 1..Len(heap) :
    (heap[i].running /\ ~heap[i].stopped /\ ~BeingInserted(i)) =>
      /\ heap[i].clientID \in DOMAIN leases
      /\ leases[heap[i].clientID] = i

\* a handler has taken up a call
Processing == \E h \in 1..MaxCalls : calls[h] # NoCall

\* the steps of runDaemon from one place to the next
DaemonSteps ==
  {<<"setup", "load">>, <<"setup", "aborted">>,
   <<"load", "reconcile">>, <<"load", "aborted">>,
   <<"reconcile", "mark">>, <<"reconcile", "aborted">>,
   <<"mark", "serving">>, <<"mark", "aborted">>,
   <<"serving", "crashed">>}

\* startup went from the load through the reconciliation and the persist
\* to the marking of the node; persisted tells which outcomes of the write
\* count as the registry persisted
StartupInOrder(persisted) ==
  /\ daemon' # daemon => <<daemon, daemon'>> \in DaemonSteps
  /\ Processing' => daemon' \in {"serving", "crashed"}
  /\ daemon' \in {"mark", "serving", "crashed"} => boot'.wrote \in persisted
  /\ daemon' = "mark" =>
       /\ boot'.idx > Len(boot'.loaded)
       /\ boot'.wrote = "written" => FileReflectsRegistry'
  /\ (daemon = "mark" /\ daemon' = "serving") =>
       leases' = leases /\ file' = file
  /\ abortErr' # "none" <=> daemon' = "aborted"
  /\ daemon' = "aborted" => ~Processing'

\* C28 as stated: no call is taken up before the loop of newDHCP has ended
\* and the file holds the reconciled registry, the node is marked after
\* that, and when startup fails runDaemon returns the error and no call is
\* ever taken up
C28_ServesAfterStartup == [][StartupInOrder({"written"})]_vars

\* C28, amended: no call is taken up before the loop of newDHCP has ended
\* and PersistActiveLeases has run on the reconciled registry, whose write
\* may have failed; when it succeeded the file holds the reconciled
\* registry; the node is marked after that, and when startup fails
\* runDaemon returns the error and no call is ever taken up
C28_ServesAfterPersistAttempt == [][StartupInOrder(WriteOutcomes)]_vars

\* the daemon serves after a startup that reinstated a lease and wrote the
\* file, and a Release has found the reinstated lease
C28_Witness ==
  /\ daemon = "serving"
  /\ boot.wrote = "written"
  /\ \E h \in 1..MaxCalls :
       /\ calls[h].op = "Release"
       /\ calls[h].l # 0
       /\ heap[calls[h].l].origin # "acquired"

\* the addresses of the leases the registry holds
Registered(reg) == {reg[c] : c \in DOMAIN reg}

\* C29: an Allocate whose lease was acquired and whose IPNet fails returns
\* the error at once; its lease is stopped, is not put into the registry,
\* and the handler neither takes a snapshot for the file nor writes it: the
\* step changes neither the registry nor the file
C29_IPNetFailureReleasesLease ==
  [][\A h \in 1..MaxCalls :
       calls'[h].ret = "ipnet" =>
         /\ calls'[h].op = "Allocate"
         /\ calls'[h].pc = "done"
         /\ calls'[h].l \in 1..Len(heap')
         /\ heap'[calls'[h].l].stopped
         /\ ~heap'[calls'[h].l].running
         /\ calls'[h].l \notin Registered(leases')
         /\ calls'[h].snap = {}
         /\ calls'[h].io = "none"
         /\ calls[h].ret # "ipnet" =>
              /\ calls[h].pc = "acquire"
              /\ leases' = leases
              /\ file' = file
    ]_vars

\* an Allocate returned the error of IPNet while the registry holds a lease
\* and the file its record
C29_Witness ==
  \E h \in 1..MaxCalls :
    /\ calls[h].op = "Allocate"
    /\ calls[h].pc = "done"
    /\ calls[h].ret = "ipnet"
    /\ heap[calls[h].l].stopped
    /\ leases # EmptyRegistry
    /\ file.st = "ok" /\ file.recs # {}

(***************************************************************************)
(* The bridge plugin: cmdAdd.                                              *)
(***************************************************************************)
\* the calls of cmdAdd that can make it return, in the order of its body,
\* with the assignment success = true of line 991 in its place
AddSteps ==
  <<"loadNetConf", "modes", "setupBridge", "GetNS", "setupVeth", "OpenFile",
    "MacSpoofChk", "iptables", "firewall", "ExecAdd", "NewResultFromResult",
    "IPs", "calcGateways", "ConfigureIface", "portState", "contVeth",
    "uplinkAddrs", "containerRoutes", "hostRoutes", "gateway", "forwardV4",
    "forwardV6", "IPMasq", "linkUp", "bridgeByName", "debugPostIPAMError",
    "success", "PrintResult">>

StepNo(step) == CHOOSE k \in 1..Len(AddSteps) : AddSteps[k] = step

\* the netconf and the test hook, as far as the path through cmdAdd
\* depends on them
NetConfs ==
  [isLayer3 : BOOLEAN, MacSpoofChk : BOOLEAN, IsGW : BOOLEAN,
   IPMasq : BOOLEAN, debugPostIPAMError : BOOLEAN]

\* whether cmdAdd comes to the step with netconf n: lines 652, 670-967
\* (layer 3), 907, 959, 968-980 (layer 2)
Applies(step, n) ==
  IF step = "MacSpoofChk" THEN n.MacSpoofChk
  ELSE IF step = "linkUp" THEN ~n.isLayer3
  ELSE IF StepNo(step) \in StepNo("firewall")..StepNo("IPMasq")
       THEN /\ n.isLayer3
            /\ step = "gateway" => n.IsGW
            /\ step = "IPMasq" => n.IPMasq
  ELSE TRUE

\* the step cmdAdd comes to after step i
NextStep(i, n) ==
  CHOOSE j \in (i + 1)..Len(AddSteps) :
    /\ Applies(AddSteps[j], n)
    /\ \A k \in (i + 1)..(j - 1) : ~Applies(AddSteps[k], n)

\* the outcomes of a step: the hook of line 981 returns its error when it
\* is set, the other calls succeed or fail
Outcomes(step, n) ==
  IF step = "debugPostIPAMError" THEN {~n.debugPostIPAMError}
  ELSE BOOLEAN

\* the function a step defers when it succeeded: lines 631, 650, 657-663
\* and 687-691
Defers(step) ==
  IF step = "GetNS" THEN <<"netns.Close">>
  ELSE IF step = "OpenFile" THEN <<"file.Close">>
  ELSE IF step = "MacSpoofChk" THEN <<"sc.Teardown">>
  ELSE IF step = "ExecAdd" THEN <<"ipam.ExecDel">>
  ELSE <<>>

InitAdd ==
  /\ DaemonOff
  /\ \E n \in NetConfs :
       frame = [fn |-> "cmdAdd", n |-> n, phase |-> "body", pc |-> 1,
                success |-> FALSE, ipam |-> FALSE, execDel |-> 0,
                teardown |-> 0, deferred |-> <<>>, err |-> "none"]

\* cmdAdd is at the step
AddAt(step) ==
  /\ frame.fn = "cmdAdd"
  /\ frame.phase = "body"
  /\ AddSteps[frame.pc] = step

\* cmdAdd after the step it is at returned ok or an error
AfterStep(fr, step, ok) ==
  IF ok
  THEN [fr EXCEPT !.pc = NextStep(fr.pc, fr.n),
                  !.deferred = Defers(step) \o @]
  ELSE [fr EXCEPT !.phase = "defers", !.err = step]

\* a step of the body other than ExecAdd, line 991 and the final return
AddStep ==
  /\ frame.fn = "cmdAdd"
  /\ frame.phase = "body"
  /\ AddSteps[frame.pc] \notin {"ExecAdd", "success", "PrintResult"}
  /\ \E ok \in Outcomes(AddSteps[frame.pc], frame.n) :
       frame' = AfterStep(frame, AddSteps[frame.pc], ok)
  /\ UNCHANGED daemonVars

\* lines 680-691: ipam.ExecAdd; on an error success = false and return, else
\* the release is deferred
AddExecAdd ==
  /\ AddAt("ExecAdd")
  /\ \E ok \in BOOLEAN :
       frame' = [AfterStep(frame, "ExecAdd", ok)
                   EXCEPT !.ipam = ok,
                          !.success = IF ok THEN frame.success ELSE FALSE]
  /\ UNCHANGED daemonVars

\* line 991
AddSuccess ==
  /\ AddAt("success")
  /\ frame' = [AfterStep(frame, "success", TRUE) EXCEPT !.success = TRUE]
  /\ UNCHANGED daemonVars

\* line 993: return types.PrintResult(result, cniVersion)
AddPrintResult ==
  /\ AddAt("PrintResult")
  /\ \E ok \in BOOLEAN :
       frame' = [frame EXCEPT !.phase = "defers",
                              !.err = IF ok THEN "nil" ELSE "PrintResult"]
  /\ UNCHANGED daemonVars

\* the deferred functions run, last deferred first; lines 657-663 and
\* 687-691 look at success
AddDeferred ==
  /\ frame.fn = "cmdAdd"
  /\ frame.phase = "defers"
  /\ frame.deferred # <<>>
  /\ LET f == Head(frame.deferred)
     IN  frame' =
           [frame EXCEPT
              !.deferred = Tail(@),
              !.execDel = IF f = "ipam.ExecDel" /\ ~frame.success
                          THEN @ + 1 ELSE @,
              !.teardown = IF f = "sc.Teardown" /\ ~frame.success
                           THEN @ + 1 ELSE @]
  /\ UNCHANGED daemonVars

\* cmdAdd returns to its caller
AddReturn ==
  /\ frame.fn = "cmdAdd"
  /\ frame.phase = "defers"
  /\ frame.deferred = <<>>
  /\ frame' = [frame EXCEPT !.phase = "returned"]
  /\ UNCHANGED daemonVars

NextAdd ==
  \/ AddStep
  \/ AddExecAdd
  \/ AddSuccess
  \/ AddPrintResult
  \/ AddDeferred
  \/ AddReturn

SpecAdd == InitAdd /\ [][NextAdd]_vars

\* cmdAdd has returned
AddReturned == frame.fn = "cmdAdd" /\ frame.phase = "returned"

\* C30: when cmdAdd has returned an error after ipam.ExecAdd gave it an
\* address, ipam.ExecDel was called, once; when it has returned nil,
\* ipam.ExecDel was not called
C30_ReleaseOnFailure ==
  AddReturned =>
    /\ (frame.ipam /\ frame.err # "nil") => frame.execDel = 1
    /\ frame.err = "nil" => frame.execDel = 0

====
